---- MODULE Spec2Model ----
(***************************************************************************)
(* A model of cronzee's health-check engine: the Monitor (monitor.go), the *)
(* Database it persists to (database.go) and the HTTP handlers that mutate *)
(* the registry (server.go).                                               *)
(*                                                                         *)
(* Strings that the code inspects character by character (names, URLs,    *)
(* endpoint IDs, history keys) are sequences of one-character strings.     *)
(* Time is the wall clock in seconds; time.Time values are integers and    *)
(* the zero time.Time is ZeroTime.                                         *)
(***************************************************************************)
EXTENDS Integers, Sequences, FiniteSets, TLC

VARIABLES
    now,        \* the wall clock read by time.Now()
    endpoints,  \* Database: the "endpoints" bucket, ID -> StoredEndpoint
    history,    \* Database: the "history" bucket, key -> HealthCheckRecord
    states,     \* Monitor.states, ID -> EndpointState
    checks,     \* checkEndpoint goroutines in flight, ID -> the state they hold
    pc,         \* position of Monitor.Start and of its tick-loop goroutine
    sent,       \* the alerter calls made by the outcome handler of the last step
    saved,      \* the records the outcome handler of the last step gave to the Database
    handlers,   \* HTTP handlers in flight, handler -> its locals and its position
    tickNow,    \* the local now of the checkDueEndpoints that is about to scan the map
    alerter,    \* Monitor.alerter: its configuration and its delivery goroutines in flight
    cleaner,    \* the goroutine of startCleanupRoutine: its position and its ticker
    locking     \* goroutine -> its position among its lock operations and the locks it holds

vars == <<now, endpoints, history, states, checks, pc, sent, saved, handlers, tickNow, alerter, cleaner, locking>>

(***************************************************************************)
(* Bounds of the model.                                                    *)
(***************************************************************************)
Epoch == 1000000      \* the clock's first value; every value has 7 digits
MaxTime == 1          \* seconds the clock may advance within a day
MaxDays == 5          \* days the clock may advance (cleanup specification)
MaxCount == 4         \* cap of the consecutive-outcome counters
MaxRecords == 5       \* cap of the history bucket (store and cleanup specifications)
HistoryTime == 2      \* seconds the clock may advance (store specification)
HistoryDays == 4      \* days the clock may advance (history specification)
ScenarioTime == 4     \* seconds the clock may advance (scenario specification)

(***************************************************************************)
(* Program constants.                                                      *)
(***************************************************************************)
DataRetentionDays == 3
SecondsPerDay == 86400
DefaultTimeout == 10
DefaultCheckInterval == 30
DefaultFailureThreshold == 3
DefaultSuccessThreshold == 2
ConfigCheckInterval == 30
ZeroTime == 0

StatusHealthy == "healthy"
StatusUnhealthy == "unhealthy"
StatusUnknown == "unknown"

(***************************************************************************)
(* Characters and byte order.                                              *)
(***************************************************************************)
Digit == <<"0", "1", "2", "3", "4", "5", "6", "7", "8", "9">>
Upper == <<"A", "B", "C", "D", "E", "F", "G", "H", "I", "J", "K", "L", "M",
           "N", "O", "P", "Q", "R", "S", "T", "U", "V", "W", "X", "Y", "Z">>
Lower == <<"a", "b", "c", "d", "e", "f", "g", "h", "i", "j", "k", "l", "m",
           "n", "o", "p", "q", "r", "s", "t", "u", "v", "w", "x", "y", "z">>

Range(s) == {s[i] : i \in DOMAIN s}

\* The characters the model uses, in increasing byte (ASCII) order.
ByteOrder == <<" ", "-", ".", "/">> \o Digit \o <<":">> \o Upper \o <<"_">> \o Lower

Byte(c) == CHOOSE i \in DOMAIN ByteOrder : ByteOrder[i] = c

\* bytes.Compare(a, b) < 0: the order of the keys of a bbolt bucket.
BytesLess(a, b) ==
    LET differ == {i \in 1..Len(a) : i <= Len(b) /\ a[i] # b[i]}
    IN  IF differ = {}
        THEN Len(a) < Len(b)
        ELSE LET first == CHOOSE i \in differ : \A j \in differ : i <= j
             IN  Byte(a[first]) < Byte(b[first])

HasPrefix(k, prefix) ==
    /\ Len(k) >= Len(prefix)
    /\ SubSeq(k, 1, Len(prefix)) = prefix

\* fmt's %d of an integer.
RECURSIVE FormatNat(_)
FormatNat(n) ==
    IF n < 10 THEN <<Digit[n + 1]>>
    ELSE FormatNat(n \div 10) \o <<Digit[(n % 10) + 1]>>

FormatInt(n) == IF n < 0 THEN <<"-">> \o FormatNat(0 - n) ELSE FormatNat(n)

(***************************************************************************)
(* generateIDWithURL (database.go).                                        *)
(***************************************************************************)
IsAlnum(c) == c \in Range(Lower) \cup Range(Upper) \cup Range(Digit)

IsDashed(c) == c \in {" ", "-", "_", "/", ":", "."}

\* First loop: keep letters and digits, turn separators into dashes, drop the rest.
RECURSIVE Sanitize(_)
Sanitize(s) ==
    IF s = <<>> THEN <<>>
    ELSE (IF IsAlnum(Head(s)) THEN <<Head(s)>>
          ELSE IF IsDashed(Head(s)) THEN <<"-">>
          ELSE <<>>) \o Sanitize(Tail(s))

\* Second loop: drop a dash that follows a dash.
RECURSIVE CollapseDashes(_, _)
CollapseDashes(s, prevDash) ==
    IF s = <<>> THEN <<>>
    ELSE IF Head(s) = "-"
         THEN (IF prevDash THEN <<>> ELSE <<"-">>) \o CollapseDashes(Tail(s), TRUE)
         ELSE <<Head(s)>> \o CollapseDashes(Tail(s), FALSE)

\* Third loop: drop trailing dashes.
RECURSIVE TrimTrailingDash(_)
TrimTrailingDash(s) ==
    IF Len(s) > 0 /\ s[Len(s)] = "-"
    THEN TrimTrailingDash(SubSeq(s, 1, Len(s) - 1))
    ELSE s

generateIDWithURL(name, url) ==
    TrimTrailingDash(CollapseDashes(Sanitize(name \o <<"-">> \o url), FALSE))

(***************************************************************************)
(* The history bucket (database.go).                                       *)
(***************************************************************************)
\* unixNano is Timestamp.UnixNano(), scaled to the clock's unit.
HistoryKey(endpointID, unixNano) == endpointID \o <<":">> \o FormatInt(unixNano)

\* The keys of a bucket in the order a bbolt cursor visits them.
RECURSIVE CursorOrder(_)
CursorOrder(keys) ==
    IF keys = {} THEN <<>>
    ELSE LET first == CHOOSE k \in keys : \A o \in keys \ {k} : BytesLess(k, o)
         IN  <<first>> \o CursorOrder(keys \ {first})

BucketPut(bucket, key, value) ==
    [k \in DOMAIN bucket \cup {key} |-> IF k = key THEN value ELSE bucket[k]]

BucketDelete(bucket, keys) == [k \in DOMAIN bucket \ keys |-> bucket[k]]

\* The bucket after SaveHealthCheckRecord's transaction commits.
SaveHealthCheckRecord(bucket, record) ==
    BucketPut(bucket, HistoryKey(record.EndpointID, record.Timestamp), record)

Reverse(s) == [i \in 1..Len(s) |-> s[Len(s) + 1 - i]]

\* The cursor loop of GetHealthHistory: from Seek(prefix), while the key has the prefix.
RECURSIVE ScanPrefix(_, _, _, _)
ScanPrefix(bucket, order, i, prefix) ==
    IF i > Len(order) \/ ~HasPrefix(order[i], prefix) THEN <<>>
    ELSE <<bucket[order[i]]>> \o ScanPrefix(bucket, order, i + 1, prefix)

\* Cursor.Seek: the index of the first key >= prefix (past the end when none).
Seek(order, prefix) ==
    IF \E i \in DOMAIN order : ~BytesLess(order[i], prefix)
    THEN CHOOSE i \in DOMAIN order :
             /\ ~BytesLess(order[i], prefix)
             /\ \A j \in 1..(i - 1) : BytesLess(order[j], prefix)
    ELSE Len(order) + 1

\* A faulty GetHealthHistory that forgets to reverse what the cursor read.
GetHealthHistoryOldestFirst(bucket, endpointID, limit) ==
    LET prefix == endpointID \o <<":">>
        order == CursorOrder(DOMAIN bucket)
        records == ScanPrefix(bucket, order, Seek(order, prefix), prefix)
    IN  IF limit > 0 /\ Len(records) > limit
        THEN SubSeq(records, 1, limit)
        ELSE records

GetHealthHistory(bucket, endpointID, limit) ==
    LET prefix == endpointID \o <<":">>
        order == CursorOrder(DOMAIN bucket)
        records == Reverse(ScanPrefix(bucket, order, Seek(order, prefix), prefix))
    IN  IF limit > 0 /\ Len(records) > limit
        THEN SubSeq(records, 1, limit)
        ELSE records

\* time.Now().AddDate(0, 0, -DataRetentionDays)
Cutoff(t) == t - DataRetentionDays * SecondsPerDay

\* A faulty CleanupOldData that also deletes the records at the cutoff.
CleanupOldDataThroughCutoff(bucket, t) ==
    LET keysToDelete == {k \in DOMAIN bucket : bucket[k].Timestamp <= Cutoff(t)}
    IN  BucketDelete(bucket, keysToDelete)

\* The bucket after CleanupOldData's transaction commits.
CleanupOldData(bucket, t) ==
    LET keysToDelete == {k \in DOMAIN bucket : bucket[k].Timestamp < Cutoff(t)}
    IN  BucketDelete(bucket, keysToDelete)


(***************************************************************************)
(* Endpoint definitions and runtime states.                                *)
(***************************************************************************)
EmptyBucket == <<>>

NoState == <<>>

\* The StoredEndpoint handleAddEndpoint builds from a request.  CreatedAt,
\* UpdatedAt and Headers are left out: nothing in the engine reads them.
NewStoredEndpoint(name, url, timeout, checkInterval, failureThreshold, successThreshold) ==
    [ID |-> generateIDWithURL(name, url),
     Name |-> name,
     URL |-> url,
     Method |-> "",
     Timeout |-> timeout,
     CheckInterval |-> checkInterval,
     ExpectedStatus |-> 0,
     FailureThreshold |-> failureThreshold,
     SuccessThreshold |-> successThreshold,
     Enabled |-> TRUE,
     AlertsSuppressed |-> FALSE]

\* The "Set defaults" block of SaveEndpoint; it writes through the caller's pointer.
WithDefaults(endpoint) ==
    [endpoint EXCEPT
        !.Method = IF @ = "" THEN "GET" ELSE @,
        !.Timeout = IF @ = 0 THEN DefaultTimeout ELSE @,
        !.ExpectedStatus = IF @ = 0 THEN 200 ELSE @,
        !.FailureThreshold = IF @ = 0 THEN DefaultFailureThreshold ELSE @,
        !.SuccessThreshold = IF @ = 0 THEN DefaultSuccessThreshold ELSE @,
        !.CheckInterval = IF @ = 0 THEN DefaultCheckInterval ELSE @]

\* The bucket after SaveEndpoint's transaction commits.
SaveEndpoint(bucket, endpoint) == BucketPut(bucket, endpoint.ID, WithDefaults(endpoint))

ToEndpoint(stored) ==
    [Name |-> stored.Name,
     URL |-> stored.URL,
     Method |-> stored.Method,
     Timeout |-> stored.Timeout,
     ExpectedStatus |-> stored.ExpectedStatus,
     FailureThreshold |-> stored.FailureThreshold,
     SuccessThreshold |-> stored.SuccessThreshold]

\* The EndpointState literal of loadEndpointsFromDB and of AddEndpoint, built at time t.
NewEndpointState(stored, t) ==
    [ID |-> stored.ID,
     Endpoint |-> ToEndpoint(stored),
     Status |-> StatusUnknown,
     LastCheck |-> t,
     LastStatusChange |-> ZeroTime,
     ConsecutiveFailures |-> 0,
     ConsecutiveSuccesses |-> 0,
     ResponseTime |-> 0,
     LastError |-> "",
     Enabled |-> stored.Enabled,
     AlertsSuppressed |-> stored.AlertsSuppressed,
     CheckInterval |-> IF stored.CheckInterval = 0 THEN ConfigCheckInterval
                       ELSE stored.CheckInterval,
     NextCheck |-> t]

(***************************************************************************)
(* The outcome handlers (monitor.go).  Each returns the state it leaves,   *)
(* the alerter calls it makes and the records it gives to the Database.    *)
(***************************************************************************)
\* A faulty saveHealthRecord that keeps a record of failed checks only.
saveHealthRecordOfFailures(state, errorMsg) ==
    IF errorMsg = ""
    THEN <<>>
    ELSE <<[EndpointID |-> state.ID,
            Timestamp |-> state.LastCheck,
            Status |-> state.Status,
            ResponseTime |-> state.ResponseTime,
            StatusCode |-> 0,
            Error |-> errorMsg]>>

\* A faulty saveHealthRecord that records the outcome of the check as the status.
saveHealthRecordOfOutcome(state, errorMsg) ==
    <<[EndpointID |-> state.ID,
       Timestamp |-> state.LastCheck,
       Status |-> IF errorMsg = "" THEN StatusHealthy ELSE StatusUnhealthy,
       ResponseTime |-> state.ResponseTime,
       StatusCode |-> 0,
       Error |-> errorMsg]>>

\* The records saveHealthRecord gives to SaveHealthCheckRecord (m.db is never nil:
\* NewMonitor reads the endpoints through it).
saveHealthRecord(state, errorMsg) ==
    <<[EndpointID |-> state.ID,
       Timestamp |-> state.LastCheck,
       Status |-> state.Status,
       ResponseTime |-> state.ResponseTime,
       StatusCode |-> 0,
       Error |-> errorMsg]>>

Alert(kind, state) == [kind |-> kind, ID |-> state.ID]

MaxDeliveries == 1    \* cap of the delivery goroutines in flight

\* The goroutines whose use of the locks is followed: the scan of a tick, a
\* check, a request that changes a flag or the settings, a status query, a
\* reload, a run of the cleanup routine and an alert delivery.
Lockers == {"scan", "check", "mutate", "status", "reload", "pruner", "delivery"}

\* No goroutine is at a lock operation and none holds a lock.
NoLocking == [g \in Lockers |-> [pc |-> 1, holds |-> {}]]

\* The goroutine that NewDatabase starts: it has not yet run CleanupOldData,
\* and its ticker has sent nothing.
NewCleaner == [at |-> "initial", tick |-> FALSE, failed |-> FALSE]

\* NewAlerter: the Alerter with its configuration and no delivery in flight.
NewAlerter(webhookURL) == [WebhookURL |-> webhookURL, deliveries |-> {}]

\* The fields of the state that an alert shows.
Shown(state) ==
    [Status |-> state.Status,
     ConsecutiveFailures |-> state.ConsecutiveFailures,
     LastError |-> state.LastError,
     ResponseTime |-> state.ResponseTime,
     LastCheck |-> state.LastCheck]

\* SendFailureAlert and SendRecoveryAlert with sendAlert: the message is
\* formatted from the state in the handler's step, under the lock of the
\* state, and a goroutine is started with the message, a copy of the
\* endpoint and the pointer to the state.  live is whether the pointer is to
\* the state in the map; state is the state it points to when it is not.
sendAlert(alerts, state, live) ==
    IF alerter.WebhookURL = ""
    THEN alerter
    ELSE [alerter EXCEPT !.deliveries = @ \cup
            {[alertType |-> alerts[i].kind,
              ID |-> state.ID,
              endpoint |-> state.Endpoint,
              message |-> Shown(state),
              live |-> live,
              state |-> IF live THEN NoState ELSE state] : i \in DOMAIN alerts}]

\* A faulty countSuccess that leaves the failure counter alone.
countSuccessKeepingFailures(state, responseTime, t) ==
    [state EXCEPT
        !.LastCheck = t,
        !.NextCheck = t + state.CheckInterval,
        !.ResponseTime = responseTime,
        !.ConsecutiveSuccesses = @ + 1,
        !.LastError = ""]

\* The first six assignments of handleCheckSuccess.
countSuccess(state, responseTime, t) ==
    [state EXCEPT
        !.LastCheck = t,
        !.NextCheck = t + state.CheckInterval,
        !.ResponseTime = responseTime,
        !.ConsecutiveFailures = 0,
        !.ConsecutiveSuccesses = @ + 1,
        !.LastError = ""]

\* A faulty countFailure that leaves the success counter alone.
countFailureKeepingSuccesses(state, errorMsg, responseTime, t) ==
    [state EXCEPT
        !.LastCheck = t,
        !.NextCheck = t + state.CheckInterval,
        !.ResponseTime = responseTime,
        !.ConsecutiveFailures = @ + 1,
        !.LastError = errorMsg]

\* A faulty countFailure that leaves the endpoint due at once.
countFailureDueAtOnce(state, errorMsg, responseTime, t) ==
    [state EXCEPT
        !.LastCheck = t,
        !.NextCheck = t,
        !.ResponseTime = responseTime,
        !.ConsecutiveSuccesses = 0,
        !.ConsecutiveFailures = @ + 1,
        !.LastError = errorMsg]

\* The first six assignments of handleCheckFailure.
countFailure(state, errorMsg, responseTime, t) ==
    [state EXCEPT
        !.LastCheck = t,
        !.NextCheck = t + state.CheckInterval,
        !.ResponseTime = responseTime,
        !.ConsecutiveSuccesses = 0,
        !.ConsecutiveFailures = @ + 1,
        !.LastError = errorMsg]

\* A faulty comparison that needs one outcome more than the threshold.
thresholdExceeded(count, threshold) == count > threshold

\* "Update status if threshold is met"
thresholdMet(count, threshold) == count >= threshold

\* A faulty condition that takes every status but healthy for an outage.
recoveredFromAny(previousStatus, status) ==
    previousStatus # StatusHealthy /\ status = StatusHealthy

\* The condition of the recovery alert.
recovered(previousStatus, status) ==
    previousStatus = StatusUnhealthy /\ status = StatusHealthy

\* A faulty condition that forgets the status before the check.
isUnhealthy(previousStatus, status) == status = StatusUnhealthy

\* The condition of the failure alert.
becameUnhealthy(previousStatus, status) ==
    previousStatus # StatusUnhealthy /\ status = StatusUnhealthy

\* A faulty body that puts the timestamp under the test of AlertsSuppressed.
statusChangedUnlessSuppressed(state, kind, t) ==
    IF ~state.AlertsSuppressed
    THEN LET final == [state EXCEPT !.LastStatusChange = t]
         IN  [state |-> final, alerts |-> <<Alert(kind, final)>>]
    ELSE [state |-> state, alerts |-> <<>>]

\* The body of both alert conditions: the timestamp, then the alerter unless suppressed.
statusChanged(state, kind, t) ==
    LET final == [state EXCEPT !.LastStatusChange = t]
    IN  [state |-> final,
         alerts |-> IF ~final.AlertsSuppressed THEN <<Alert(kind, final)>> ELSE <<>>]

handleCheckSuccess(state, responseTime, t) ==
    LET counted == countSuccess(state, responseTime, t)
        previousStatus == counted.Status
        updated == IF thresholdMet(counted.ConsecutiveSuccesses, counted.Endpoint.SuccessThreshold)
                   THEN [counted EXCEPT !.Status = StatusHealthy]
                   ELSE counted
        changed == IF recovered(previousStatus, updated.Status)
                   THEN statusChanged(updated, "recovery", t)
                   ELSE [state |-> updated, alerts |-> <<>>]
    IN  [state |-> changed.state,
         alerts |-> changed.alerts,
         records |-> saveHealthRecord(changed.state, "")]

handleCheckFailure(state, errorMsg, responseTime, t) ==
    LET counted == countFailure(state, errorMsg, responseTime, t)
        previousStatus == counted.Status
        updated == IF thresholdMet(counted.ConsecutiveFailures, counted.Endpoint.FailureThreshold)
                   THEN [counted EXCEPT !.Status = StatusUnhealthy]
                   ELSE counted
        changed == IF becameUnhealthy(previousStatus, updated.Status)
                   THEN statusChanged(updated, "failure", t)
                   ELSE [state |-> updated, alerts |-> <<>>]
    IN  [state |-> changed.state,
         alerts |-> changed.alerts,
         records |-> saveHealthRecord(changed.state, errorMsg)]

\* What one run of checkEndpoint can observe: the classification of the
\* request, the error text and the response time handed to the handler.
Outcomes ==
    {[ok |-> TRUE, err |-> "", rt |-> 1],
     [ok |-> FALSE, err |-> "failed to create request", rt |-> 0],
     [ok |-> FALSE, err |-> "request failed", rt |-> 1],
     [ok |-> FALSE, err |-> "unexpected status code", rt |-> 1]}

\* The outcomes the monitor specification draws from.
MainOutcomes == {o \in Outcomes : o.rt = 1 /\ o.err \in {"", "request failed"}}

\* checkEndpoint, from the request's return to the handler's return.
checkEndpointResult(state, outcome, t) ==
    IF outcome.ok
    THEN handleCheckSuccess(state, outcome.rt, t)
    ELSE handleCheckFailure(state, outcome.err, outcome.rt, t)


(***************************************************************************)
(* Inputs of the requests.  A duration field of a request is <<>> when the *)
(* field is absent and <<d>> when it parses to d.                          *)
(***************************************************************************)
AddRequests == {<<(<<"a">>), (<<"x">>)>>}

IDsOf(requests) == {generateIDWithURL(r[1], r[2]) : r \in requests}

\* The check interval of an add request: every second.
AddIntervals == {<<1>>}

\* The check interval of an update request: absent.
UpdateIntervals == {<<>>}

ThresholdInputs == {1, 2}

\* A step that calls neither the alerter nor SaveHealthCheckRecord.
NoOutput == sent' = <<>> /\ saved' = <<>>

\* A request that is answered with an error changes nothing.
Rejected == NoOutput /\ UNCHANGED <<locking, cleaner, alerter, tickNow, handlers, now, endpoints, history, states, checks, pc>>

(***************************************************************************)
(* The clock.                                                              *)
(***************************************************************************)
ClockSecond(maxTime) ==
    /\ (now - Epoch) % SecondsPerDay < maxTime
    /\ now' = now + 1
    /\ NoOutput /\ UNCHANGED <<locking, cleaner, alerter, tickNow, handlers, endpoints, history, states, checks, pc>>

ClockDay(maxDays) ==
    /\ (now - Epoch) \div SecondsPerDay < maxDays
    /\ now' = now + SecondsPerDay
    /\ NoOutput /\ UNCHANGED <<locking, cleaner, alerter, tickNow, handlers, endpoints, history, states, checks, pc>>

(***************************************************************************)
(* The registry (monitor.go, server.go).  ok is whether the Database's     *)
(* write transaction commits.                                              *)
(***************************************************************************)
\* A delivery goroutine of the alerter keeps its pointer to a state that
\* leaves the map.
Held(ids) ==
    [alerter EXCEPT !.deliveries =
        {IF d.live /\ d.ID \in ids
         THEN [d EXCEPT !.live = FALSE, !.state = states[d.ID]]
         ELSE d : d \in @}]

\* A goroutine checking a state that leaves the map keeps its pointer to it.
Detach(ids) ==
    [id \in DOMAIN checks |->
        IF id \in ids /\ checks[id].live
        THEN [live |-> FALSE, state |-> states[id]]
        ELSE checks[id]]

\* A faulty loadEndpointsFromDB that builds the map anew from the store.
loadEndpointsFromDBOnly(registry, bucket, t) ==
    [id \in DOMAIN bucket |-> NewEndpointState(bucket[id], t)]

loadEndpointsFromDB(registry, bucket, t) ==
    [id \in DOMAIN registry \cup DOMAIN bucket |->
        IF id \in DOMAIN bucket THEN NewEndpointState(bucket[id], t) ELSE registry[id]]

ReloadEndpoints ==
    /\ states' = loadEndpointsFromDB(states, endpoints, now)
    /\ checks' = Detach(DOMAIN endpoints)
    /\ alerter' = Held(DOMAIN endpoints)
    /\ NoOutput /\ UNCHANGED <<locking, cleaner, tickNow, handlers, now, endpoints, history, pc>>

\* Monitor.AddEndpoint after SaveEndpoint has returned: the map insert.
AddEndpoint(registry, stored, t) ==
    [id \in DOMAIN registry \cup {stored.ID} |->
        IF id = stored.ID THEN NewEndpointState(stored, t) ELSE registry[id]]

handleAddEndpoint(name, url, timeout, checkInterval, failureThreshold, successThreshold, ok) ==
    LET conflict == \E id \in DOMAIN endpoints :
                        endpoints[id].Name = name \/ endpoints[id].URL = url
        endpoint == NewStoredEndpoint(name, url,
                        IF timeout = <<>> THEN DefaultTimeout ELSE timeout[1],
                        IF checkInterval = <<>> THEN DefaultCheckInterval ELSE checkInterval[1],
                        failureThreshold, successThreshold)
    IN  IF name = <<>> \/ url = <<>> \/ conflict \/ ~ok
        THEN Rejected
        ELSE /\ endpoints' = SaveEndpoint(endpoints, endpoint)
             /\ states' = AddEndpoint(states, WithDefaults(endpoint), now)
             /\ checks' = Detach({endpoint.ID})
             /\ alerter' = Held({endpoint.ID})
             /\ NoOutput /\ UNCHANGED <<locking, cleaner, tickNow, handlers, now, history, pc>>

\* A faulty RemoveEndpoint that deletes the history of the endpoint with it.
RemoveEndpointWithHistory(id, ok) ==
    IF ~ok
    THEN Rejected
    ELSE /\ endpoints' = BucketDelete(endpoints, {id})
         /\ states' = BucketDelete(states, {id})
         /\ checks' = Detach({id})
         /\ alerter' = Held({id})
         /\ history' = BucketDelete(history,
                           {k \in DOMAIN history : history[k].EndpointID = id})
         /\ NoOutput /\ UNCHANGED <<locking, cleaner, tickNow, handlers, now, pc>>

\* A faulty RemoveEndpoint that leaves the state in the map.
RemoveEndpointFromStore(id, ok) ==
    IF ~ok
    THEN Rejected
    ELSE /\ endpoints' = BucketDelete(endpoints, {id})
         /\ NoOutput /\ UNCHANGED <<locking, cleaner, alerter, tickNow, handlers, now, history, states, checks, pc>>

RemoveEndpoint(id, ok) ==
    IF ~ok
    THEN Rejected
    ELSE /\ endpoints' = BucketDelete(endpoints, {id})
         /\ states' = BucketDelete(states, {id})
         /\ checks' = Detach({id})
         /\ alerter' = Held({id})
         /\ NoOutput /\ UNCHANGED <<locking, cleaner, tickNow, handlers, now, history, pc>>

\* A faulty SetFlag that updates the state in the map before it asks the Database.
SetFlagMemoryFirst(id, field, value, ok) ==
    /\ states' = IF id \in DOMAIN states
                 THEN [states EXCEPT ![id][field] = value]
                 ELSE states
    /\ endpoints' = IF id \in DOMAIN endpoints /\ ok
                    THEN SaveEndpoint(endpoints, [endpoints[id] EXCEPT ![field] = value])
                    ELSE endpoints
    /\ NoOutput /\ UNCHANGED <<locking, cleaner, alerter, tickNow, handlers, now, history, checks, pc>>

\* A faulty SetFlag that starts the state in the map over.
SetFlagAnew(id, field, value, ok) ==
    IF id \notin DOMAIN endpoints \/ ~ok
    THEN Rejected
    ELSE /\ endpoints' = SaveEndpoint(endpoints, [endpoints[id] EXCEPT ![field] = value])
         /\ states' = IF id \in DOMAIN states
                      THEN [states EXCEPT ![id][field] = value,
                                          ![id].Status = StatusUnknown,
                                          ![id].ConsecutiveFailures = 0,
                                          ![id].ConsecutiveSuccesses = 0]
                      ELSE states
         /\ NoOutput /\ UNCHANGED <<locking, cleaner, alerter, tickNow, handlers, now, history, checks, pc>>

\* Database.EnableEndpoint, DisableEndpoint, SuppressAlerts and UnsuppressAlerts
\* followed by the Monitor's update of the state in the map.
SetFlag(id, field, value, ok) ==
    IF id \notin DOMAIN endpoints \/ ~ok
    THEN Rejected
    ELSE /\ endpoints' = SaveEndpoint(endpoints, [endpoints[id] EXCEPT ![field] = value])
         /\ states' = IF id \in DOMAIN states
                      THEN [states EXCEPT ![id][field] = value]
                      ELSE states
         /\ NoOutput /\ UNCHANGED <<locking, cleaner, alerter, tickNow, handlers, now, history, checks, pc>>

EnableEndpoint(id, ok) == SetFlag(id, "Enabled", TRUE, ok)

DisableEndpoint(id, ok) == SetFlag(id, "Enabled", FALSE, ok)

SuppressAlerts(id, ok) == SetFlag(id, "AlertsSuppressed", TRUE, ok)

UnsuppressAlerts(id, ok) == SetFlag(id, "AlertsSuppressed", FALSE, ok)

UpdateEndpointSettings(registry, id, stored) ==
    IF id \in DOMAIN registry
    THEN [registry EXCEPT
            ![id].Endpoint.Timeout = stored.Timeout,
            ![id].Endpoint.FailureThreshold = stored.FailureThreshold,
            ![id].Endpoint.SuccessThreshold = stored.SuccessThreshold,
            ![id].CheckInterval = stored.CheckInterval]
    ELSE registry

handleUpdateEndpoint(id, checkInterval, timeout, failureThreshold, successThreshold, ok) ==
    IF id \notin DOMAIN endpoints \/ ~ok
    THEN Rejected
    ELSE LET endpoint == WithDefaults([endpoints[id] EXCEPT
                            !.CheckInterval = IF checkInterval = <<>> THEN @ ELSE checkInterval[1],
                            !.Timeout = IF timeout = <<>> THEN @ ELSE timeout[1],
                            !.FailureThreshold = IF failureThreshold > 0 THEN failureThreshold ELSE @,
                            !.SuccessThreshold = IF successThreshold > 0 THEN successThreshold ELSE @])
         IN  /\ endpoints' = SaveEndpoint(endpoints, endpoint)
             /\ states' = UpdateEndpointSettings(states, id, endpoint)
             /\ NoOutput /\ UNCHANGED <<locking, cleaner, alerter, tickNow, handlers, now, history, checks, pc>>

(***************************************************************************)
(* The scheduler (monitor.go).  pc is "new" before Start, "startup" while  *)
(* Start waits for checkAllEndpoints, "loop" while the tick loop waits for *)
(* the ticker and "batch" while checkDueEndpoints waits for its checks.    *)
(***************************************************************************)
Dispatch(ids) == [id \in ids |-> [live |-> TRUE, state |-> NoState]]

\* A faulty checkAllEndpoints that checks the disabled endpoints too.
checkAllEndpointsAndDisabled ==
    /\ pc = "new"
    /\ checks' = Dispatch(DOMAIN states)
    /\ pc' = "startup"
    /\ NoOutput /\ UNCHANGED <<locking, cleaner, alerter, tickNow, handlers, now, endpoints, history, states>>

\* Start up to the wg.Wait of checkAllEndpoints.
checkAllEndpoints ==
    /\ pc = "new"
    /\ checks' = Dispatch({id \in DOMAIN states : states[id].Enabled})
    /\ pc' = "startup"
    /\ NoOutput /\ UNCHANGED <<locking, cleaner, alerter, tickNow, handlers, now, endpoints, history, states>>

\* A faulty checkDueEndpoints that does not look at NextCheck.
checkDueEndpointsWhetherDue ==
    /\ pc = "loop"
    /\ checks' = Dispatch({id \in DOMAIN states : states[id].Enabled})
    /\ pc' = "batch"
    /\ NoOutput /\ UNCHANGED <<locking, cleaner, alerter, tickNow, handlers, now, endpoints, history, states>>

\* One tick of the loop up to the wg.Wait of checkDueEndpoints.
checkDueEndpoints ==
    /\ pc = "loop"
    /\ checks' = Dispatch({id \in DOMAIN states :
                              states[id].Enabled /\ ~(now < states[id].NextCheck)})
    /\ pc' = "batch"
    /\ NoOutput /\ UNCHANGED <<locking, cleaner, alerter, tickNow, handlers, now, endpoints, history, states>>

\* A faulty wait that returns while checks of the batch are still running.
BatchDoneEarly ==
    /\ pc \in {"startup", "batch"}
    /\ pc' = "loop"
    /\ NoOutput /\ UNCHANGED <<locking, cleaner, alerter, tickNow, handlers, now, endpoints, history, states, checks>>

\* wg.Wait returns: every check of the batch has returned.
BatchDone ==
    /\ pc \in {"startup", "batch"}
    /\ DOMAIN checks = {}
    /\ pc' = "loop"
    /\ NoOutput /\ UNCHANGED <<locking, cleaner, alerter, tickNow, handlers, now, endpoints, history, states, checks>>

\* A faulty checkEndpoint whose failure ends the tick loop.
checkEndpointAborting(id, outcome, ok) ==
    /\ id \in DOMAIN checks
    /\ LET state == IF checks[id].live THEN states[id] ELSE checks[id].state
           result == checkEndpointResult(state, outcome, now)
       IN  /\ result.state.ConsecutiveFailures <= MaxCount
           /\ result.state.ConsecutiveSuccesses <= MaxCount
           /\ states' = IF checks[id].live
                        THEN [states EXCEPT ![id] = result.state]
                        ELSE states
           /\ sent' = result.alerts
           /\ alerter' = sendAlert(result.alerts, result.state, checks[id].live)
           /\ Cardinality(alerter'.deliveries) <= MaxDeliveries
           /\ saved' = result.records
           /\ history' = IF ok /\ result.records # <<>>
                         THEN SaveHealthCheckRecord(history, result.records[1])
                         ELSE history
    /\ checks' = [c \in DOMAIN checks \ {id} |-> checks[c]]
    /\ pc' = IF outcome.ok THEN pc ELSE "aborted"
    /\ UNCHANGED <<locking, cleaner, tickNow, handlers, now, endpoints>>

\* One checkEndpoint goroutine runs to its end.  ok is whether the
\* transaction of SaveHealthCheckRecord commits.
checkEndpoint(id, outcome, ok) ==
    /\ id \in DOMAIN checks
    /\ LET state == IF checks[id].live THEN states[id] ELSE checks[id].state
           result == checkEndpointResult(state, outcome, now)
       IN  /\ result.state.ConsecutiveFailures <= MaxCount
           /\ result.state.ConsecutiveSuccesses <= MaxCount
           /\ states' = IF checks[id].live
                        THEN [states EXCEPT ![id] = result.state]
                        ELSE states
           /\ sent' = result.alerts
           /\ alerter' = sendAlert(result.alerts, result.state, checks[id].live)
           /\ Cardinality(alerter'.deliveries) <= MaxDeliveries
           /\ saved' = result.records
           /\ history' = IF ok /\ result.records # <<>>
                         THEN SaveHealthCheckRecord(history, result.records[1])
                         ELSE history
    /\ checks' = [c \in DOMAIN checks \ {id} |-> checks[c]]
    /\ UNCHANGED <<locking, cleaner, tickNow, handlers, now, endpoints, pc>>

(***************************************************************************)
(* The monitor: the registry requests, the scheduler and the checks.       *)
(***************************************************************************)
Init ==
    /\ now = Epoch
    /\ endpoints = EmptyBucket
    /\ history = EmptyBucket
    /\ states = EmptyBucket
    /\ checks = EmptyBucket
    /\ pc = "new"
    /\ sent = <<>>
    /\ saved = <<>>
    /\ handlers = EmptyBucket
    /\ tickNow = ZeroTime
    /\ alerter = NewAlerter("")
    /\ cleaner = NewCleaner
    /\ locking = NoLocking

\* commits is the set of outcomes of the Database's write transactions:
\* TRUE when the transaction commits, FALSE when it returns an error.
Requests(adds, thresholds, commits) ==
    \/ \E r \in adds, ci \in AddIntervals, ft, st \in thresholds, ok \in commits :
          handleAddEndpoint(r[1], r[2], <<>>, ci, ft, st, ok)
    \/ \E id \in IDsOf(adds), ok \in commits : RemoveEndpoint(id, ok)
    \/ \E id \in IDsOf(adds), ok \in commits : EnableEndpoint(id, ok)
    \/ \E id \in IDsOf(adds), ok \in commits : DisableEndpoint(id, ok)
    \/ \E id \in IDsOf(adds), ok \in commits : SuppressAlerts(id, ok)
    \/ \E id \in IDsOf(adds), ok \in commits : UnsuppressAlerts(id, ok)
    \/ \E id \in IDsOf(adds), ci \in UpdateIntervals, ft, st \in thresholds \cup {0}, ok \in commits :
          handleUpdateEndpoint(id, ci, <<>>, ft, st, ok)
    \/ ReloadEndpoints

Scheduler(outcomes, commits) ==
    \/ checkAllEndpoints
    \/ checkDueEndpoints
    \/ BatchDone
    \/ \E id \in DOMAIN checks, outcome \in outcomes, ok \in commits :
          checkEndpoint(id, outcome, ok)

Next ==
    \/ ClockSecond(MaxTime)
    \/ Requests(AddRequests, ThresholdInputs, {TRUE})
    \/ Scheduler(MainOutcomes, {TRUE})

Spec == Init /\ [][Next]_vars

(***************************************************************************)
(* Properties of the outcome handlers.                                     *)
(***************************************************************************)
\* A check of id returns: its goroutine leaves the batch.
CheckReturns(id) == id \in DOMAIN checks /\ id \notin DOMAIN checks'

\* The step in which a check of id returns after handleCheckSuccess.
SuccessReturns(id) ==
    /\ CheckReturns(id)
    /\ \E outcome \in Outcomes, ok \in BOOLEAN : outcome.ok /\ checkEndpoint(id, outcome, ok)

\* The step in which a check of id returns after handleCheckFailure.
FailureReturns(id) ==
    /\ CheckReturns(id)
    /\ \E outcome \in Outcomes, ok \in BOOLEAN : ~outcome.ok /\ checkEndpoint(id, outcome, ok)

\* The state a check of id works on, before its handler runs.
StateBefore(id) == IF checks[id].live THEN states[id] ELSE checks[id].state

\* The status the handler leaves.  A state that has left the map is seen
\* through the record its handler writes.
StatusAfter(id) == IF checks[id].live THEN states'[id].Status ELSE saved'[1].Status

\* C1: a failed check leaves the status unhealthy exactly when the failure
\* counter it leaves has reached FailureThreshold, a successful check leaves it
\* healthy exactly when the success counter it leaves has reached
\* SuccessThreshold, and in every other case the status is the one before.
C1_ThresholdDecidesStatus ==
    [][\A id \in DOMAIN checks :
          /\ (FailureReturns(id) /\ checks[id].live) =>
                states'[id].Status =
                    IF states'[id].ConsecutiveFailures >= states'[id].Endpoint.FailureThreshold
                    THEN StatusUnhealthy
                    ELSE states[id].Status
          /\ (SuccessReturns(id) /\ checks[id].live) =>
                states'[id].Status =
                    IF states'[id].ConsecutiveSuccesses >= states'[id].Endpoint.SuccessThreshold
                    THEN StatusHealthy
                    ELSE states[id].Status]_vars

\* A failed check below the threshold has left the status alone and a
\* successful one at the threshold has made the endpoint healthy.
C1_Witness ==
    \E id \in DOMAIN states :
        /\ states[id].Status = StatusHealthy
        /\ states[id].ConsecutiveFailures = 1
        /\ states[id].Endpoint.FailureThreshold = 2
        /\ states[id].Endpoint.SuccessThreshold = 2

\* The states the handlers work on: those of the map and those that left it
\* while a check was running.
HandledStates ==
    {states[id] : id \in DOMAIN states}
        \cup {checks[id].state : id \in {c \in DOMAIN checks : ~checks[c].live}}

\* C2: at most one of the two counters is non-zero at any time; a successful
\* check resets the failure counter and adds one to the success counter, a
\* failed check resets the success counter and adds one to the failure counter.
C2_CountersExclusive ==
    /\ [](\A state \in HandledStates :
             state.ConsecutiveFailures = 0 \/ state.ConsecutiveSuccesses = 0)
    /\ [][\A id \in DOMAIN checks :
             /\ (SuccessReturns(id) /\ checks[id].live) =>
                   /\ states'[id].ConsecutiveFailures = 0
                   /\ states'[id].ConsecutiveSuccesses = states[id].ConsecutiveSuccesses + 1
             /\ (FailureReturns(id) /\ checks[id].live) =>
                   /\ states'[id].ConsecutiveSuccesses = 0
                   /\ states'[id].ConsecutiveFailures = states[id].ConsecutiveFailures + 1]_vars

\* A failure has followed two successes: the success counter is back at zero.
C2_Witness ==
    \E id \in DOMAIN states :
        /\ states[id].Status = StatusHealthy
        /\ states[id].ConsecutiveFailures = 1
        /\ states[id].ConsecutiveSuccesses = 0
        /\ saved # <<>>

\* C3: a step calls the alerter at most once, and only when a check returns
\* and leaves a status other than the one it found.
C3_OneAlertPerChange ==
    [][/\ \A id \in DOMAIN checks :
             CheckReturns(id) =>
                /\ Len(sent') <= 1
                /\ sent' # <<>> => StateBefore(id).Status # StatusAfter(id)
       /\ (\A id \in DOMAIN checks : ~CheckReturns(id)) => sent' = <<>>]_vars

\* A failed check has found the endpoint unhealthy and sent nothing.
C3_Witness ==
    \E id \in DOMAIN states :
        /\ states[id].Status = StatusUnhealthy
        /\ states[id].ConsecutiveFailures > states[id].Endpoint.FailureThreshold
        /\ ~states[id].AlertsSuppressed
        /\ saved # <<>>
        /\ sent = <<>>

Kinds(alerts) == {alerts[i].kind : i \in DOMAIN alerts}

\* The kind of alert each change of status allows, and the two changes that
\* start from unknown.  unlessSuppressed is whether the failure alert of
\* unknown -> unhealthy is only required of an endpoint whose alerts are not
\* suppressed.
AlertKinds(id, unlessSuppressed) ==
    LET before == StateBefore(id).Status
        after == StatusAfter(id)
    IN  /\ "recovery" \in Kinds(sent') =>
              before = StatusUnhealthy /\ after = StatusHealthy
        /\ "failure" \in Kinds(sent') =>
              before # StatusUnhealthy /\ after = StatusUnhealthy
        /\ (before = StatusUnknown /\ after = StatusHealthy) => sent' = <<>>
        /\ (/\ before = StatusUnknown
            /\ after = StatusUnhealthy
            /\ unlessSuppressed => ~StateBefore(id).AlertsSuppressed)
              => Kinds(sent') = {"failure"}

\* C4 as stated: a recovery alert is sent only on unhealthy -> healthy, a
\* failure alert only on the change from a status other than unhealthy to
\* unhealthy, unknown -> healthy sends nothing and unknown -> unhealthy sends a
\* failure alert.
C4_AlertKindsAsStated ==
    [][\A id \in DOMAIN checks : CheckReturns(id) => AlertKinds(id, FALSE)]_vars

\* C4: as stated, except that unknown -> unhealthy sends the failure alert
\* only when the alerts of the endpoint are not suppressed.
C4_AlertKinds ==
    [][\A id \in DOMAIN checks : CheckReturns(id) => AlertKinds(id, TRUE)]_vars

\* A successful check has made an endpoint of unknown status healthy and sent
\* nothing although its alerts are not suppressed.
C4_Witness ==
    \E id \in DOMAIN states :
        /\ states[id].Status = StatusHealthy
        /\ states[id].LastStatusChange = ZeroTime
        /\ states[id].ConsecutiveSuccesses = states[id].Endpoint.SuccessThreshold
        /\ ~states[id].AlertsSuppressed
        /\ saved # <<>>
        /\ sent = <<>>

\* The two changes of status the handlers call a transition.
Transition(before, after) ==
    \/ before = StatusUnhealthy /\ after = StatusHealthy
    \/ before # StatusUnhealthy /\ after = StatusUnhealthy

\* C6: a check that makes a transition sets LastStatusChange to the time of
\* the check whether or not alerts are suppressed and calls the alerter exactly
\* when AlertsSuppressed is false; any other check leaves LastStatusChange alone.
C6_LastStatusChange ==
    [][\A id \in DOMAIN checks :
          (CheckReturns(id) /\ checks[id].live) =>
              IF Transition(states[id].Status, states'[id].Status)
              THEN /\ states'[id].LastStatusChange = now
                   /\ sent' # <<>> <=> ~states[id].AlertsSuppressed
              ELSE states'[id].LastStatusChange = states[id].LastStatusChange]_vars

\* A suppressed endpoint has become unhealthy after the first second: the
\* timestamp is that of the check and no alert was sent.
C6_Witness ==
    \E id \in DOMAIN states :
        /\ states[id].Status = StatusUnhealthy
        /\ states[id].AlertsSuppressed
        /\ states[id].LastStatusChange = now
        /\ states[id].LastCheck = now
        /\ now > Epoch
        /\ saved # <<>>
        /\ sent = <<>>

\* C7: once the status the map holds for an ID has been healthy or unhealthy,
\* it is not unknown again while the ID stays in the map.
C7_NeverUnknownAgain ==
    [][\A id \in DOMAIN states :
          (id \in DOMAIN states' /\ states[id].Status # StatusUnknown)
              => states'[id].Status # StatusUnknown]_vars

\* C8: a check that returns has applied one outcome to its state, a success
\* or a failure, and has given one record of that endpoint and that check to
\* SaveHealthCheckRecord, whether or not the status changed; no other step
\* gives it a record.
C8_OneOutcomeOneRecord ==
    [][/\ \A id \in DOMAIN checks :
             CheckReturns(id) =>
                /\ Len(saved') = 1
                /\ saved'[1].EndpointID = StateBefore(id).ID
                /\ saved'[1].Timestamp = now
                /\ checks[id].live =>
                      \/ /\ states'[id].ConsecutiveSuccesses = states[id].ConsecutiveSuccesses + 1
                         /\ states'[id].ConsecutiveFailures = 0
                         /\ saved'[1].Error = ""
                      \/ /\ states'[id].ConsecutiveFailures = states[id].ConsecutiveFailures + 1
                         /\ states'[id].ConsecutiveSuccesses = 0
                         /\ saved'[1].Error # ""
       /\ (\A id \in DOMAIN checks : ~CheckReturns(id)) => saved' = <<>>]_vars

\* A successful check below the threshold has left the status unknown and
\* has written its record.
C8_Witness ==
    /\ Len(saved) = 1
    /\ saved[1].Error = ""
    /\ saved[1].Status = StatusUnknown
    /\ sent = <<>>
    /\ HistoryKey(saved[1].EndpointID, saved[1].Timestamp) \in DOMAIN history


(***************************************************************************)
(* One endpoint, added before Start with the default thresholds and a      *)
(* check interval of one second, and no request after that: every check    *)
(* works on the same state and every record is written.                    *)
(***************************************************************************)
ScenarioEndpoint == NewStoredEndpoint(<<"a">>, <<"x">>, DefaultTimeout, 1, 0, 0)

\* The state handleAddEndpoint leaves when it is given ScenarioEndpoint at Init.
InitScenario ==
    /\ now = Epoch
    /\ endpoints = SaveEndpoint(EmptyBucket, ScenarioEndpoint)
    /\ history = EmptyBucket
    /\ states = AddEndpoint(EmptyBucket, WithDefaults(ScenarioEndpoint), Epoch)
    /\ checks = EmptyBucket
    /\ pc = "new"
    /\ sent = <<>>
    /\ saved = <<>>
    /\ handlers = EmptyBucket
    /\ tickNow = ZeroTime
    /\ alerter = NewAlerter("")
    /\ cleaner = NewCleaner
    /\ locking = NoLocking

NextScenario ==
    \/ ClockSecond(ScenarioTime)
    \/ Scheduler(Outcomes, {TRUE})

SpecScenario == InitScenario /\ [][NextScenario]_vars

\* The outcomes of the checks of id so far, oldest first, read from the
\* records of the bucket: "S" for a success and "F" for a failure.
OutcomesOf(bucket, id) ==
    LET records == {bucket[k] : k \in {key \in DOMAIN bucket : bucket[key].EndpointID = id}}
        rank(r) == Cardinality({q \in records : q.Timestamp <= r.Timestamp})
    IN  [i \in 1..Cardinality(records) |->
            LET r == CHOOSE q \in records : rank(q) = i
            IN  IF r.Error = "" THEN "S" ELSE "F"]

\* C5: with FailureThreshold 3, SuccessThreshold 2 and alerts not suppressed,
\* the first two failures of a new endpoint send nothing and leave it unknown,
\* the third makes it unhealthy and sends the one failure alert, a success
\* after that leaves it unhealthy with no failures counted and sends nothing,
\* and a second success makes it healthy and sends the one recovery alert.
C5_Scenario ==
    [][\A id \in DOMAIN checks :
          CheckReturns(id) =>
             LET trace == OutcomesOf(history', id)
                 state == states'[id]
             IN  /\ trace \in {<<"F">>, <<"F", "F">>} =>
                       state.Status = StatusUnknown /\ sent' = <<>>
                 /\ trace = <<"F", "F", "F">> =>
                       /\ state.Status = StatusUnhealthy
                       /\ sent' = <<Alert("failure", state)>>
                 /\ trace = <<"F", "F", "F", "S">> =>
                       /\ state.Status = StatusUnhealthy
                       /\ state.ConsecutiveFailures = 0
                       /\ sent' = <<>>
                 /\ trace = <<"F", "F", "F", "S", "S">> =>
                       /\ state.Status = StatusHealthy
                       /\ sent' = <<Alert("recovery", state)>>]_vars

\* The fifth check of the scenario has returned.
C5_Witness ==
    \E id \in DOMAIN states :
        /\ states[id].Endpoint.FailureThreshold = 3
        /\ states[id].Endpoint.SuccessThreshold = 2
        /\ OutcomesOf(history, id) = <<"F", "F", "F", "S", "S">>
        /\ states[id].Status = StatusHealthy
        /\ Kinds(sent) = {"recovery"}

(***************************************************************************)
(* The Database alone, in two specifications: records are written by       *)
(* handlers whose endpoints are not followed; SpecStore writes them in any *)
(* order within a few seconds, SpecCleanup over days with the cleanup      *)
(* routine running.                                                        *)
(***************************************************************************)
StoreRequests ==
    {<<(<<"a">>), (<<"x">>)>>,
     <<(<<"a">>), (<<"x", " ", "y">>)>>,
     <<(<<"a">>), (<<"x", "y">>)>>}

StoreIDs == IDsOf(StoreRequests)

CleanupRequests ==
    {<<(<<"a">>), (<<"x">>)>>,
     <<(<<"a">>), (<<"x", " ", "y">>)>>}

CleanupIDs == IDsOf(CleanupRequests)

\* The values the clock can have taken up to t.
PastTimes(t) ==
    {Epoch + d * SecondsPerDay + s_ :
        d \in 0..((t - Epoch) \div SecondsPerDay), s_ \in 0..((t - Epoch) % SecondsPerDay)}

\* A handler that read the clock at timestamp reaches SaveHealthCheckRecord.
appendRecord(id, timestamp, status, ok) ==
    /\ \/ Cardinality(DOMAIN history) < MaxRecords
       \/ HistoryKey(id, timestamp) \in DOMAIN history
    /\ history' = IF ok
                  THEN SaveHealthCheckRecord(history,
                           [EndpointID |-> id, Timestamp |-> timestamp, Status |-> status,
                            ResponseTime |-> 1, StatusCode |-> 0, Error |-> ""])
                  ELSE history
    /\ NoOutput /\ UNCHANGED <<locking, cleaner, alerter, tickNow, handlers, now, endpoints, states, checks, pc>>

\* A faulty cleanup whose failed transaction keeps its first deletion.
cleanupRunPartly(ok) ==
    /\ history' =
          IF ok THEN CleanupOldData(history, now)
          ELSE LET keysToDelete == {k \in DOMAIN history : history[k].Timestamp < Cutoff(now)}
               IN  IF keysToDelete = {} THEN history
                   ELSE BucketDelete(history, {CHOOSE k \in keysToDelete : TRUE})
    /\ NoOutput /\ UNCHANGED <<locking, cleaner, alerter, tickNow, handlers, now, endpoints, states, checks, pc>>

\* One run of CleanupOldData by startCleanupRoutine.
cleanupRun(ok) ==
    /\ history' = IF ok THEN CleanupOldData(history, now) ELSE history
    /\ NoOutput /\ UNCHANGED <<locking, cleaner, alerter, tickNow, handlers, now, endpoints, states, checks, pc>>

\* Records of three endpoints written within the same seconds, in any order.
NextStore ==
    \/ ClockSecond(HistoryTime)
    \/ \E id \in StoreIDs, t \in PastTimes(now), ok \in BOOLEAN :
          appendRecord(id, t, StatusHealthy, ok)

SpecStore == Init /\ [][NextStore]_vars

\* Records of two endpoints written over the days, and the cleanup routine.
NextCleanup ==
    \/ ClockDay(MaxDays)
    \/ \E id \in CleanupIDs, t \in PastTimes(now), ok \in BOOLEAN :
          appendRecord(id, t, StatusHealthy, ok)
    \/ \E ok \in BOOLEAN : cleanupRun(ok)

SpecCleanup == Init /\ [][NextCleanup]_vars

(***************************************************************************)
(* Properties of the history bucket.                                       *)
(***************************************************************************)
RecordsOf(bucket, id) ==
    {bucket[k] : k \in {key \in DOMAIN bucket : bucket[key].EndpointID = id}}

Min(a, b) == IF a < b THEN a ELSE b

\* The limits a query is tried with: none, zero, and from one to more than
\* the bucket can hold.
LimitInputs == (-1)..(MaxRecords + 1)

\* C9: whatever the order in which the records of this and of other endpoints
\* were written, GetHealthHistory returns records of the endpoint asked for
\* only, newest first with strictly falling timestamps; with a limit above
\* zero it returns the min(limit, n) newest of the n records stored, and with
\* a limit of zero or less all n.
C9_HistoryNewestFirst ==
    \A id \in StoreIDs, limit \in LimitInputs :
        LET result == GetHealthHistory(history, id, limit)
            stored == RecordsOf(history, id)
            n == Cardinality(stored)
        IN  /\ \A i \in DOMAIN result : result[i].EndpointID = id /\ result[i] \in stored
            /\ \A i, j \in DOMAIN result :
                  i < j => result[i].Timestamp > result[j].Timestamp
            /\ Len(result) = IF limit > 0 THEN Min(limit, n) ELSE n
            /\ \A r \in stored \ Range(result), i \in DOMAIN result :
                  r.Timestamp < result[i].Timestamp

\* An endpoint has three records or more, and the cursor meets records of
\* other endpoints before and after them.
C9_Witness ==
    \E id \in StoreIDs :
        LET prefix == id \o <<":">>
        IN  /\ Cardinality(RecordsOf(history, id)) >= 3
            /\ Len(GetHealthHistory(history, id, 2)) = 2
            /\ \E k \in DOMAIN history : BytesLess(k, prefix)
            /\ \E k \in DOMAIN history : ~HasPrefix(k, prefix) /\ BytesLess(prefix, k)

\* The records of bucket a cleanup at time t must delete.
Expired(bucket, t) ==
    {k \in DOMAIN bucket : bucket[k].Timestamp < t - 3 * SecondsPerDay}

\* C10: a run of CleanupOldData that commits deletes the records whose
\* timestamp is before the clock minus three days and no other record, so a
\* record at the cutoff stays, and of five records of an endpoint of which
\* two are older than the cutoff three remain.
C10_CleanupDeletesExpired ==
    [][cleanupRun(TRUE) =>
          /\ DOMAIN history' = DOMAIN history \ Expired(history, now)
          /\ \A k \in DOMAIN history' : history'[k] = history[k]
          /\ \A k \in DOMAIN history :
                history[k].Timestamp = now - 3 * SecondsPerDay => k \in DOMAIN history'
          /\ \A id \in CleanupIDs :
                (/\ Cardinality(RecordsOf(history, id)) = 5
                 /\ Cardinality({k \in Expired(history, now) : history[k].EndpointID = id}) = 2)
                    => Cardinality(RecordsOf(history', id)) = 3]_vars

\* A cleanup finds five records of one endpoint: two older than the cutoff,
\* one at the cutoff and two younger.
C10_Witness ==
    \E id \in CleanupIDs :
        /\ Cardinality(RecordsOf(history, id)) = 5
        /\ Cardinality({k \in Expired(history, now) : history[k].EndpointID = id}) = 2
        /\ \E k \in DOMAIN history : history[k].Timestamp = now - 3 * SecondsPerDay

(***************************************************************************)
(* The history of one endpoint over the days: every registry request, the  *)
(* scheduler and the cleanup routine.  The ticker fires after the clock    *)
(* has passed every timestamp written so far: two checks of one ID are in  *)
(* different batches, wg.Wait orders the batches, and the wall clock is    *)
(* taken not to be set back between them.                                  *)
(***************************************************************************)
tickAfterWrites ==
    /\ \A k \in DOMAIN history : history[k].Timestamp < now
    /\ checkDueEndpoints

NextHistory ==
    \/ ClockDay(HistoryDays)
    \/ Requests(AddRequests, {1}, {TRUE})
    \/ checkAllEndpoints
    \/ tickAfterWrites
    \/ BatchDone
    \/ \E id \in DOMAIN checks, outcome \in MainOutcomes : checkEndpoint(id, outcome, TRUE)
    \/ \E ok \in BOOLEAN : cleanupRun(ok)

SpecHistory == Init /\ [][NextHistory]_vars

MaxHandlers == 2

Handlers == 1 .. MaxHandlers

Handler(op, at, id, endpoint, reply) ==
    [op |-> op, at |-> at, id |-> id, endpoint |-> endpoint, reply |-> reply]

Begin(h, handler) ==
    /\ h \notin DOMAIN handlers
    /\ handlers' = [k \in DOMAIN handlers \cup {h} |->
                       IF k = h THEN handler ELSE handlers[k]]

Move(h, handler) == handlers' = [handlers EXCEPT ![h] = handler]

Reply(h, reply) == Move(h, [handlers[h] EXCEPT !.at = "reply", !.reply = reply])

At(h, op, at) ==
    /\ h \in DOMAIN handlers
    /\ handlers[h].op = op
    /\ handlers[h].at = at

\* The handler writes its response and returns.
respond(h) ==
    /\ h \in DOMAIN handlers
    /\ handlers[h].at = "reply"
    /\ handlers' = BucketDelete(handlers, {h})
    /\ NoOutput /\ UNCHANGED <<locking, cleaner, alerter, tickNow, now, endpoints, history, states, checks, pc>>

\* handleAddEndpoint up to its call of Monitor.AddEndpoint: the validation and
\* the search of GetAllEndpoints for the name and for the URL.
addValidate(h, name, url, timeout, checkInterval, failureThreshold, successThreshold) ==
    LET conflict == \E id \in DOMAIN endpoints :
                        endpoints[id].Name = name \/ endpoints[id].URL = url
        endpoint == NewStoredEndpoint(name, url,
                        IF timeout = <<>> THEN DefaultTimeout ELSE timeout[1],
                        IF checkInterval = <<>> THEN DefaultCheckInterval ELSE checkInterval[1],
                        failureThreshold, successThreshold)
    IN  /\ Begin(h, IF name = <<>> \/ url = <<>>
                    THEN Handler("add", "reply", <<>>, NoState, "BadRequest")
                    ELSE IF conflict
                    THEN Handler("add", "reply", endpoint.ID, NoState, "Conflict")
                    ELSE Handler("add", "save", endpoint.ID, endpoint, ""))
        /\ NoOutput /\ UNCHANGED <<locking, cleaner, alerter, tickNow, now, endpoints, history, states, checks, pc>>

\* Monitor.AddEndpoint: SaveEndpoint, which fills the defaults in through the
\* pointer of the caller.
addSave(h, ok) ==
    /\ At(h, "add", "save")
    /\ IF ok
       THEN /\ endpoints' = SaveEndpoint(endpoints, handlers[h].endpoint)
            /\ Move(h, [handlers[h] EXCEPT
                           !.at = "insert", !.endpoint = WithDefaults(@)])
       ELSE /\ Reply(h, "InternalServerError")
            /\ UNCHANGED endpoints
    /\ NoOutput /\ UNCHANGED <<locking, cleaner, alerter, tickNow, now, history, states, checks, pc>>

\* Monitor.AddEndpoint: the insert into the map under m.mu.
addInsert(h) ==
    /\ At(h, "add", "insert")
    /\ states' = AddEndpoint(states, handlers[h].endpoint, now)
    /\ checks' = Detach({handlers[h].id})
    /\ alerter' = Held({handlers[h].id})
    /\ Reply(h, "OK")
    /\ NoOutput /\ UNCHANGED <<locking, cleaner, tickNow, now, endpoints, history, pc>>

ConcurrentAdds ==
    {<<(<<"a">>), (<<"x">>)>>, <<(<<"a">>), (<<"y">>)>>, <<(<<"b">>), (<<"x">>)>>}

NextAdd ==
    \/ \E h \in Handlers, r \in ConcurrentAdds : addValidate(h, r[1], r[2], <<>>, <<>>, 0, 0)
    \/ \E h \in Handlers, ok \in BOOLEAN : addSave(h, ok)
    \/ \E h \in Handlers : addInsert(h)
    \/ \E h \in Handlers : respond(h)

SpecAdd == Init /\ [][NextAdd]_vars

\* C12: after any interleaving of add requests no two stored endpoints have
\* the same name and no two have the same URL.
C12_UniqueNamesAndURLs ==
    \A id1, id2 \in DOMAIN endpoints :
        id1 # id2 => /\ endpoints[id1].Name # endpoints[id2].Name
                     /\ endpoints[id1].URL # endpoints[id2].URL

\* C12, the part about one request: an add that meets a stored endpoint of its
\* name or of its URL is answered Conflict, and an add answered Conflict has
\* changed neither the store nor the map.
C12_ConflictChangesNothing ==
    [][\A h \in Handlers :
          h \notin DOMAIN handlers /\ h \in DOMAIN handlers' /\ handlers'[h].op = "add"
          => LET id == handlers'[h].id
                 known == \E e \in DOMAIN endpoints, r \in ConcurrentAdds :
                              /\ generateIDWithURL(r[1], r[2]) = id
                              /\ endpoints[e].Name = r[1] \/ endpoints[e].URL = r[2]
             IN  /\ known <=> handlers'[h].reply = "Conflict"
                 /\ handlers'[h].reply = "Conflict" => UNCHANGED <<endpoints, states>>]_vars

C12_Witness ==
    \E h \in DOMAIN handlers : handlers[h].reply = "Conflict" /\ DOMAIN endpoints # {}

(***************************************************************************)
(* The IDs of the add requests (server.go, database.go).  One handler at a *)
(* time computes the ID of a request whose name and URL are any texts of   *)
(* at most MaxLen characters: a letter, a separator and a character that   *)
(* generateIDWithURL drops.  A request without a name or without a URL is  *)
(* answered before its ID is computed.                                     *)
(***************************************************************************)
MaxLen == 2

IDChars == {"a", "-", "!"}

RECURSIVE Texts(_)
Texts(n) ==
    IF n = 0 THEN {<<>>}
    ELSE Texts(n - 1) \cup {<<c>> \o t : c \in IDChars, t \in Texts(n - 1)}

IDInputs == Texts(MaxLen)

NextID ==
    \/ \E name \in IDInputs, url \in IDInputs : addValidate(1, name, url, <<>>, <<>>, 0, 0)
    \/ respond(1)

SpecID == Init /\ [][NextID]_vars

\* C13: the same name with two different URLs never yields the same ID.
C13_DifferentURLDifferentID ==
    \A h \in DOMAIN handlers :
        handlers[h].at = "save" =>
            \A url \in IDInputs :
                url # handlers[h].endpoint.URL =>
                    generateIDWithURL(handlers[h].endpoint.Name, url) # handlers[h].id

\* C14: an ID is made of letters, digits and dashes only, begins with no dash,
\* ends with no dash and has no two dashes in a row.
C14_WellFormedID ==
    \A h \in DOMAIN handlers :
        handlers[h].at = "save" =>
            LET id == handlers[h].id
            IN  /\ \A i \in DOMAIN id : IsAlnum(id[i]) \/ id[i] = "-"
                /\ id # <<>> => id[1] # "-" /\ id[Len(id)] # "-"
                /\ \A i \in 1 .. Len(id) - 1 : ~(id[i] = "-" /\ id[i + 1] = "-")

(***************************************************************************)
(* The settings of the add and update requests (server.go).  The           *)
(* thresholds are JSON integers and the durations are texts that           *)
(* time.ParseDuration accepts, among them "0s" and "-1s".                  *)
(***************************************************************************)
MaxSetting == 2

SettingInputs == -1 .. MaxSetting

DurationInputs == {<<>>} \cup {<<d>> : d \in SettingInputs}

NextSettings ==
    \/ \E r \in AddRequests, timeout, ci \in DurationInputs, ft, st \in SettingInputs,
          ok \in BOOLEAN :
          handleAddEndpoint(r[1], r[2], timeout, ci, ft, st, ok)
    \/ \E id \in IDsOf(AddRequests), timeout, ci \in DurationInputs, ft, st \in SettingInputs,
          ok \in BOOLEAN :
          handleUpdateEndpoint(id, ci, timeout, ft, st, ok)

SpecSettings == Init /\ [][NextSettings]_vars

\* C15: after any sequence of add and update requests every stored endpoint
\* and every state of the Monitor has thresholds of at least one, a positive
\* timeout and a positive check interval.
C15_SettingsPositive ==
    /\ \A id \in DOMAIN endpoints :
          /\ endpoints[id].FailureThreshold >= 1
          /\ endpoints[id].SuccessThreshold >= 1
          /\ endpoints[id].Timeout > 0
          /\ endpoints[id].CheckInterval > 0
    /\ \A id \in DOMAIN states :
          /\ states[id].Endpoint.FailureThreshold >= 1
          /\ states[id].Endpoint.SuccessThreshold >= 1
          /\ states[id].Endpoint.Timeout > 0
          /\ states[id].CheckInterval > 0

\* C15, the defaults: no stored endpoint and no state of the Monitor keeps a
\* zero setting, and a request that leaves every setting out is stored with
\* 3, 2, 10 s, 30 s, GET and 200.
C15_ZeroResolvesToDefault ==
    [][/\ \A id \in DOMAIN endpoints' :
             /\ endpoints'[id].FailureThreshold # 0
             /\ endpoints'[id].SuccessThreshold # 0
             /\ endpoints'[id].Timeout # 0
             /\ endpoints'[id].CheckInterval # 0
             /\ endpoints'[id].Method = "GET"
             /\ endpoints'[id].ExpectedStatus = 200
       /\ \A r \in AddRequests :
             handleAddEndpoint(r[1], r[2], <<>>, <<>>, 0, 0, TRUE) /\ endpoints' # endpoints
             => LET e == endpoints'[generateIDWithURL(r[1], r[2])]
                IN  /\ e.FailureThreshold = DefaultFailureThreshold
                    /\ e.SuccessThreshold = DefaultSuccessThreshold
                    /\ e.Timeout = DefaultTimeout
                    /\ e.CheckInterval = DefaultCheckInterval]_vars

(***************************************************************************)
(* The registry requests with Database transactions that may fail, one     *)
(* request at a time, next to the scheduler and its checks.  Endpoints are *)
(* added with thresholds of one; an update changes the failure threshold.  *)
(***************************************************************************)
NextRegistry ==
    \/ ClockSecond(MaxTime)
    \/ \E r \in AddRequests, ci \in AddIntervals, ok \in BOOLEAN :
          handleAddEndpoint(r[1], r[2], <<>>, ci, 1, 1, ok)
    \/ \E id \in IDsOf(AddRequests), ok \in BOOLEAN : RemoveEndpoint(id, ok)
    \/ \E id \in IDsOf(AddRequests), ok \in BOOLEAN : EnableEndpoint(id, ok)
    \/ \E id \in IDsOf(AddRequests), ok \in BOOLEAN : DisableEndpoint(id, ok)
    \/ \E id \in IDsOf(AddRequests), ok \in BOOLEAN : SuppressAlerts(id, ok)
    \/ \E id \in IDsOf(AddRequests), ok \in BOOLEAN : UnsuppressAlerts(id, ok)
    \/ \E id \in IDsOf(AddRequests), ci \in UpdateIntervals, ft \in ThresholdInputs \cup {0},
          ok \in BOOLEAN :
          handleUpdateEndpoint(id, ci, <<>>, ft, 0, ok)
    \/ ReloadEndpoints
    \/ Scheduler(MainOutcomes, {TRUE})

SpecRegistry == Init /\ [][NextRegistry]_vars

\* The flags and the settings a request can change, in the map and in the store.
Settings(state) ==
    <<state.Enabled, state.AlertsSuppressed, state.Endpoint.Timeout,
      state.Endpoint.FailureThreshold, state.Endpoint.SuccessThreshold, state.CheckInterval>>

StoredSettings(stored) ==
    <<stored.Enabled, stored.AlertsSuppressed, stored.Timeout,
      stored.FailureThreshold, stored.SuccessThreshold, stored.CheckInterval>>

FlagOrSettings(id, ok) ==
    \/ EnableEndpoint(id, ok)
    \/ DisableEndpoint(id, ok)
    \/ SuppressAlerts(id, ok)
    \/ UnsuppressAlerts(id, ok)
    \/ \E ci \in UpdateIntervals, ft \in ThresholdInputs \cup {0} :
          handleUpdateEndpoint(id, ci, <<>>, ft, 0, ok)

\* C16: an enable, disable, suppress, unsuppress or settings update whose
\* Database operation fails, or whose ID the store does not know, leaves
\* every state in the map as it was; and whenever a flag or a setting of a
\* state in the map changes, the store already holds the new value.
C16_StoreBeforeMemory ==
    [][/\ \A id \in DOMAIN states :
             \/ FlagOrSettings(id, FALSE)
             \/ id \notin DOMAIN endpoints /\ FlagOrSettings(id, TRUE)
             => states' = states
       /\ \A id \in DOMAIN states \cap DOMAIN states' :
             Settings(states'[id]) # Settings(states[id])
             => /\ id \in DOMAIN endpoints'
                /\ Settings(states'[id]) = StoredSettings(endpoints'[id])]_vars

C16_Witness ==
    \E id \in DOMAIN states :
        /\ states[id].AlertsSuppressed
        /\ ~states[id].Enabled
        /\ states[id].Endpoint.FailureThreshold = 2
        /\ endpoints[id].AlertsSuppressed

removeDelete(h, id, ok) ==
    /\ Begin(h, IF id = <<>>
                THEN Handler("remove", "reply", id, NoState, "BadRequest")
                ELSE IF ok
                THEN Handler("remove", "memory", id, NoState, "")
                ELSE Handler("remove", "reply", id, NoState, "InternalServerError"))
    /\ endpoints' = IF id # <<>> /\ ok THEN BucketDelete(endpoints, {id}) ELSE endpoints
    /\ NoOutput /\ UNCHANGED <<locking, cleaner, alerter, tickNow, now, history, states, checks, pc>>

\* RemoveEndpoint's delete from the map under m.mu.
removeMemory(h) ==
    /\ At(h, "remove", "memory")
    /\ states' = BucketDelete(states, {handlers[h].id})
    /\ checks' = Detach({handlers[h].id})
    /\ alerter' = Held({handlers[h].id})
    /\ Reply(h, "OK")
    /\ NoOutput /\ UNCHANGED <<locking, cleaner, tickNow, now, endpoints, history, pc>>

NextReload ==
    \/ ClockSecond(MaxTime)
    \/ \E r \in AddRequests, ci \in AddIntervals : handleAddEndpoint(r[1], r[2], <<>>, ci, 1, 1, TRUE)
    \/ \E id \in IDsOf(AddRequests) \cup {<<>>}, ok \in BOOLEAN : removeDelete(1, id, ok)
    \/ removeMemory(1)
    \/ respond(1)
    \/ \E id \in IDsOf(AddRequests) : SuppressAlerts(id, TRUE)
    \/ ReloadEndpoints
    \/ Scheduler(MainOutcomes, {TRUE})

SpecReload == Init /\ [][NextReload]_vars

StopWithoutWait(tick) ==
    /\ pc \in {"loop", "batch"}
    /\ pc' = "stopped"
    /\ NoOutput /\ UNCHANGED <<locking, cleaner, alerter, tickNow, handlers, now, endpoints, history, states, checks>>

\* Stop up to its m.wg.Wait(); tick is whether a tick is left in the channel.
Stop(tick) ==
    /\ pc \in {"loop", "batch"}
    /\ pc' = IF pc = "loop"
             THEN (IF tick THEN "cancelledTick" ELSE "cancelled")
             ELSE (IF tick THEN "lastBatchTick" ELSE "lastBatch")
    /\ NoOutput /\ UNCHANGED <<locking, cleaner, alerter, tickNow, handlers, now, endpoints, history, states, checks>>

\* The select takes the tick that was left: checkDueEndpoints up to its wg.Wait.
lastTick ==
    /\ pc = "cancelledTick"
    /\ checks' = Dispatch({id \in DOMAIN states :
                              states[id].Enabled /\ ~(now < states[id].NextCheck)})
    /\ pc' = "lastBatch"
    /\ NoOutput /\ UNCHANGED <<locking, cleaner, alerter, tickNow, handlers, now, endpoints, history, states>>

\* A faulty wait after the cancellation that returns while checks are running.
lastBatchDoneEarly ==
    /\ pc \in {"lastBatch", "lastBatchTick"}
    /\ pc' = IF pc = "lastBatch" THEN "cancelled" ELSE "cancelledTick"
    /\ NoOutput /\ UNCHANGED <<locking, cleaner, alerter, tickNow, handlers, now, endpoints, history, states, checks>>

\* wg.Wait of checkDueEndpoints returns after the cancellation.
lastBatchDone ==
    /\ pc \in {"lastBatch", "lastBatchTick"}
    /\ DOMAIN checks = {}
    /\ pc' = IF pc = "lastBatch" THEN "cancelled" ELSE "cancelledTick"
    /\ NoOutput /\ UNCHANGED <<locking, cleaner, alerter, tickNow, handlers, now, endpoints, history, states, checks>>

\* The select takes <-m.ctx.Done(): the goroutine of the tick loop returns.
loopExit ==
    /\ pc \in {"cancelled", "cancelledTick"}
    /\ pc' = "exited"
    /\ NoOutput /\ UNCHANGED <<locking, cleaner, alerter, tickNow, handlers, now, endpoints, history, states, checks>>

\* m.wg.Wait() returns and Stop with it.
StopReturns ==
    /\ pc = "exited"
    /\ pc' = "stopped"
    /\ NoOutput /\ UNCHANGED <<locking, cleaner, alerter, tickNow, handlers, now, endpoints, history, states, checks>>

checkReturns == \E id \in DOMAIN checks, outcome \in MainOutcomes : checkEndpoint(id, outcome, TRUE)

NextStop ==
    \/ ClockSecond(MaxTime)
    \/ \E r \in AddRequests, ci \in AddIntervals : handleAddEndpoint(r[1], r[2], <<>>, ci, 1, 1, TRUE)
    \/ \E id \in IDsOf(AddRequests) : RemoveEndpoint(id, TRUE)
    \/ checkAllEndpoints
    \/ checkDueEndpoints
    \/ BatchDone
    \/ checkReturns
    \/ \E tick \in BOOLEAN : Stop(tick)
    \/ lastTick
    \/ lastBatchDone
    \/ loopExit
    \/ StopReturns

\* A check returns because its request is bound by the timeout of the
\* endpoint and by m.ctx; a goroutine that can run does run.
SpecStop ==
    /\ Init
    /\ [][NextStop]_vars
    /\ WF_vars(checkReturns)
    /\ WF_vars(lastBatchDone)
    /\ WF_vars(loopExit)
    /\ WF_vars(StopReturns)

StopCalled == pc \in {"cancelled", "cancelledTick", "lastBatch", "lastBatchTick", "exited"}

\* C19: Stop returns in the end, and once it has returned no check is in
\* flight and the tick loop dispatches nothing any more.
C19_StopReturns ==
    /\ StopCalled ~> pc = "stopped"
    /\ [](pc = "stopped" => DOMAIN checks = {})
    /\ [][pc = "stopped" => pc' = "stopped" /\ checks' = checks]_vars

\* Stop has returned, and the tick loop had dispatched a check after the start.
C19_Witness ==
    /\ pc = "stopped"
    /\ \E k \in DOMAIN history : history[k].Timestamp > Epoch

(***************************************************************************)
(* checkEndpoint from what the request observes (monitor.go): whether      *)
(* NewRequestWithContext built the request, whether client.Do returned a   *)
(* response (it returns an error on a transport error, on the timeout and  *)
(* when m.ctx is cancelled) and the status code of the response.           *)
(***************************************************************************)
StatusCodes == {200, 404, 500}

\* A faulty checkEndpoint that takes every response for a success.
checkEndpointAnyStatus(endpoint, built, received, statusCode) ==
    IF ~built THEN [ok |-> FALSE, err |-> "failed to create request", rt |-> 0]
    ELSE IF ~received THEN [ok |-> FALSE, err |-> "request failed", rt |-> 1]
    ELSE [ok |-> TRUE, err |-> "", rt |-> 1]

\* The branch checkEndpoint takes and what it hands to the handler.
checkEndpointOutcome(endpoint, built, received, statusCode) ==
    IF ~built THEN [ok |-> FALSE, err |-> "failed to create request", rt |-> 0]
    ELSE IF ~received THEN [ok |-> FALSE, err |-> "request failed", rt |-> 1]
    ELSE IF statusCode # endpoint.ExpectedStatus
    THEN [ok |-> FALSE, err |-> "unexpected status code", rt |-> 1]
    ELSE [ok |-> TRUE, err |-> "", rt |-> 1]

checkEndpointObserved(id, built, received, statusCode) ==
    /\ id \in DOMAIN checks
    /\ checkEndpoint(id, checkEndpointOutcome(StateBefore(id).Endpoint,
                                              built, received, statusCode), TRUE)

NextClassify ==
    \/ ClockSecond(ScenarioTime)
    \/ checkAllEndpoints
    \/ checkDueEndpoints
    \/ BatchDone
    \/ \E id \in DOMAIN checks, built, received \in BOOLEAN, statusCode \in StatusCodes :
          checkEndpointObserved(id, built, received, statusCode)

SpecClassify == InitScenario /\ [][NextClassify]_vars

\* C20: a check that returns has classified its request once: as a success
\* exactly when the request was built, a response came and its status code is
\* the expected one, and as a failure otherwise, with response time 0 when the
\* request could not be built; the check returns in every case.
C20_OneClassification ==
    [][\A id \in DOMAIN checks, built, received \in BOOLEAN, statusCode \in StatusCodes :
          checkEndpointObserved(id, built, received, statusCode) =>
             LET success == built /\ received
                            /\ statusCode = StateBefore(id).Endpoint.ExpectedStatus
             IN  /\ CheckReturns(id)
                 /\ Len(saved') = 1
                 /\ saved'[1].Error = "" <=> success
                 /\ ~built => saved'[1].ResponseTime = 0
                 /\ checks[id].live =>
                       /\ states'[id].ConsecutiveSuccesses =
                             (IF success THEN states[id].ConsecutiveSuccesses + 1 ELSE 0)
                       /\ states'[id].ConsecutiveFailures =
                             (IF success THEN 0 ELSE states[id].ConsecutiveFailures + 1)
                       /\ states'[id].LastError = "" <=> success]_vars

C20_Witness ==
    /\ \E k \in DOMAIN history :
          history[k].Error = "failed to create request" /\ history[k].ResponseTime = 0
    /\ \E k \in DOMAIN history : history[k].Error = "request failed"
    /\ \E k \in DOMAIN history : history[k].Error = "unexpected status code"
    /\ \E k \in DOMAIN history : history[k].Error = ""

(***************************************************************************)
(* The tick loop without a shutdown (monitor.go): Start, the ticks and the *)
(* checks, each with any of its outcomes and with a history write that may *)
(* fail.  The ticker keeps sending ticks, a check returns because its      *)
(* request is bound by the timeout of the endpoint, and a goroutine that   *)
(* can run does run.                                                       *)
(***************************************************************************)
checkReturnsAnyhow ==
    \E id \in DOMAIN checks, outcome \in Outcomes, ok \in BOOLEAN : checkEndpoint(id, outcome, ok)

NextLoop ==
    \/ ClockSecond(MaxTime)
    \/ \E r \in AddRequests, ci \in AddIntervals : handleAddEndpoint(r[1], r[2], <<>>, ci, 2, 1, TRUE)
    \/ checkAllEndpoints
    \/ checkDueEndpoints
    \/ BatchDone
    \/ checkReturnsAnyhow

SpecLoop ==
    /\ Init
    /\ [][NextLoop]_vars
    /\ WF_vars(checkAllEndpoints)
    /\ WF_vars(checkDueEndpoints)
    /\ WF_vars(BatchDone)
    /\ WF_vars(checkReturnsAnyhow)

\* C21: a failed check, with or without a failed history write, leaves the
\* tick loop where it is, and the loop goes on taking ticks and finishing
\* their batches for ever.
C21_LoopSurvivesFailures ==
    /\ [][\A id \in DOMAIN checks : FailureReturns(id) => pc' = pc]_vars
    /\ []<>(pc = "batch")
    /\ []<>(pc = "loop")

\* The loop is back at its select after two failed checks in a row whose
\* history writes failed too.
C21_Witness ==
    /\ pc = "loop"
    /\ DOMAIN history = {}
    /\ \E id \in DOMAIN states :
          /\ states[id].ConsecutiveFailures >= 2
          /\ states[id].Status = StatusUnhealthy

\* C22: a tick dispatches a check for an ID exactly when the ID is in the
\* map, its state is enabled and its NextCheck is not after the tick's now;
\* it dispatches one check for it and none for any other ID.
C22_DispatchesDueOnly ==
    [][pc = "loop" /\ pc' = "batch" =>
          /\ DOMAIN checks' = {id \in DOMAIN states :
                                  states[id].Enabled /\ states[id].NextCheck <= now}
          /\ \A id \in DOMAIN checks' : checks'[id].live
          /\ states' = states]_vars

\* Ticks that left an endpoint alone: one that is enabled and due later, and
\* one that is due and disabled.
C22_WitnessSkipped ==
    /\ pc = "batch"
    /\ DOMAIN checks = {}
    /\ \E id \in DOMAIN states :
          \/ states[id].Enabled /\ states[id].NextCheck > now
          \/ ~states[id].Enabled /\ states[id].NextCheck <= now

\* A tick has dispatched the check of an endpoint that was checked before.
C22_Witness ==
    /\ pc = "batch"
    /\ \E id \in DOMAIN checks :
          /\ checks[id].live
          /\ states[id].Enabled
          /\ states[id].Status # StatusUnknown
          /\ states[id].NextCheck = now

\* The step in which Start or a tick dispatches its batch.
Dispatches == pc' \in {"startup", "batch"} /\ pc' # pc

\* C23: no check is dispatched for an ID while a check for that ID is in
\* flight, whether the state of the ID is still in the map or was replaced
\* by an add or a reload in the meantime; a request never starts a check.
C23_OneCheckPerID ==
    [][/\ Dispatches => \A id \in DOMAIN checks' : id \notin DOMAIN checks
       /\ ~Dispatches => DOMAIN checks' \subseteq DOMAIN checks]_vars

\* A check is in flight for a state that an add or a reload has replaced in
\* the map, and the new state is due.
C23_Witness ==
    /\ pc = "batch"
    /\ \E id \in DOMAIN checks :
          /\ ~checks[id].live
          /\ id \in DOMAIN states
          /\ states[id].Enabled
          /\ states[id].NextCheck <= now
          /\ checks[id].state.Status # StatusUnknown

\* The positions in which neither Start nor the tick loop waits for a batch.
BetweenBatches == pc \in {"new", "loop", "cancelled", "cancelledTick", "exited", "stopped"}

\* C24: a batch is dispatched only when every check of the batch before it
\* has returned, and while the loop waits for a tick no check is in flight.
C24_BatchesDoNotOverlap ==
    /\ [](BetweenBatches => DOMAIN checks = {})
    /\ [][(\E id \in DOMAIN checks' : id \notin DOMAIN checks) => DOMAIN checks = {}]_vars

\* The checks of a tick are in flight and the record of a check of an
\* earlier batch is in the history.
C24_Witness ==
    /\ pc \in {"batch", "lastBatch"}
    /\ \E id \in DOMAIN checks :
          /\ checks[id].live
          /\ \E k \in DOMAIN history :
                history[k].EndpointID = id /\ history[k].Timestamp < now

\* C25: Start dispatches one batch, for every enabled state of the map
\* whatever its NextCheck and for no disabled one; there is no second
\* startup batch, and the loop takes its first tick only after every check
\* of the startup batch has returned.
C25_StartupBatch ==
    [][/\ pc = "new" /\ pc' # "new" =>
             /\ pc' = "startup"
             /\ DOMAIN checks' = {id \in DOMAIN states : states[id].Enabled}
             /\ \A id \in DOMAIN checks' : checks'[id].live
       /\ pc # "new" => pc' \notin {"new", "startup"} \/ pc' = pc
       /\ pc = "startup" /\ pc' # "startup" => pc' = "loop" /\ DOMAIN checks = {}
       /\ pc' = "batch" /\ pc # "batch" => pc = "loop"]_vars

\* The startup batch is in flight for an endpoint that was added before the
\* start and has been due for a while.
C25_Witness ==
    /\ pc = "startup"
    /\ \E id \in DOMAIN checks :
          /\ checks[id].live
          /\ states[id].NextCheck < now

\* The startup batch left a disabled endpoint alone.
C25_WitnessDisabled ==
    /\ pc = "startup"
    /\ DOMAIN checks = {}
    /\ \E id \in DOMAIN states : ~states[id].Enabled

\* C26: once Stop has cancelled m.ctx the tick loop dispatches no check.
C26_NoDispatchAfterCancel ==
    [][StopCalled => \A id \in DOMAIN checks' : id \in DOMAIN checks]_vars

(***************************************************************************)
(* The due times (monitor.go, server.go): one endpoint whose check         *)
(* interval an update request sets to one or two seconds, next to reload,  *)
(* disable, enable, the scheduler and its checks.                          *)
(***************************************************************************)
DueIntervals == {<<1>>, <<2>>}

NextDue ==
    \/ ClockSecond(HistoryTime)
    \/ \E r \in AddRequests, ci \in AddIntervals : handleAddEndpoint(r[1], r[2], <<>>, ci, 1, 1, TRUE)
    \/ \E id \in IDsOf(AddRequests), ci \in DueIntervals : handleUpdateEndpoint(id, ci, <<>>, 0, 0, TRUE)
    \/ \E id \in IDsOf(AddRequests) : DisableEndpoint(id, TRUE)
    \/ \E id \in IDsOf(AddRequests) : EnableEndpoint(id, TRUE)
    \/ ReloadEndpoints
    \/ Scheduler(MainOutcomes, {TRUE})

SpecDue == Init /\ [][NextDue]_vars

\* The state of id in the map was replaced by a new one.
Replaced(id) ==
    /\ states'[id].Status = StatusUnknown
    /\ states'[id].NextCheck = now
    /\ states'[id].ConsecutiveFailures = 0
    /\ states'[id].ConsecutiveSuccesses = 0

\* C27: a check that returns at t leaves NextCheck at t plus the check
\* interval the state has then; no other step but an add or a reload that
\* replaces the state changes NextCheck; and a tick dispatches no endpoint
\* whose NextCheck is after its now.
C27_NextDue ==
    [][/\ \A id \in DOMAIN checks :
             CheckReturns(id) /\ checks[id].live =>
                /\ states'[id].NextCheck = now + states[id].CheckInterval
                /\ states'[id].LastCheck = now
       /\ \A id \in DOMAIN states \cap DOMAIN states' :
             states'[id].NextCheck # states[id].NextCheck =>
                \/ id \in DOMAIN checks /\ CheckReturns(id) /\ checks[id].live
                \/ Replaced(id)
       /\ pc = "loop" /\ pc' = "batch" =>
             \A id \in DOMAIN states :
                now < states[id].NextCheck => id \notin DOMAIN checks']_vars

\* A tick one second after a check has skipped the endpoint, whose check
\* interval was two seconds when the check returned.
C27_Witness ==
    /\ pc = "batch"
    /\ DOMAIN checks = {}
    /\ \E id \in DOMAIN states :
          /\ states[id].Enabled
          /\ states[id].Status # StatusUnknown
          /\ states[id].NextCheck = states[id].LastCheck + 2
          /\ now = states[id].LastCheck + 1

(***************************************************************************)
(* checkDueEndpoints step by step (monitor.go): it reads time.Now() before *)
(* it takes m.mu, so a request that holds m.mu at that moment runs between *)
(* the reading of the clock and the scan of the map.  pc is "scan" from    *)
(* the reading of the clock to the scan.                                   *)
(***************************************************************************)
\* The loop takes a tick; checkDueEndpoints reads the clock.
tickReadsClock ==
    /\ pc = "loop"
    /\ pc' = "scan"
    /\ tickNow' = now
    /\ NoOutput /\ UNCHANGED <<locking, cleaner, alerter, handlers, now, endpoints, history, states, checks>>

\* A faulty scan that finds no endpoint due.
tickScansNothing ==
    /\ pc = "scan"
    /\ checks' = Dispatch({})
    /\ pc' = "batch"
    /\ NoOutput /\ UNCHANGED <<locking, cleaner, alerter, tickNow, handlers, now, endpoints, history, states>>

\* checkDueEndpoints from m.mu.RLock() to its wg.Wait.
tickScans ==
    /\ pc = "scan"
    /\ checks' = Dispatch({id \in DOMAIN states :
                              states[id].Enabled /\ ~(tickNow < states[id].NextCheck)})
    /\ pc' = "batch"
    /\ NoOutput /\ UNCHANGED <<locking, cleaner, alerter, tickNow, handlers, now, endpoints, history, states>>

NextTick ==
    \/ ClockSecond(MaxTime)
    \/ \E r \in AddRequests, ci \in AddIntervals : handleAddEndpoint(r[1], r[2], <<>>, ci, 1, 1, TRUE)
    \/ \E id \in IDsOf(AddRequests) : RemoveEndpoint(id, TRUE)
    \/ checkAllEndpoints
    \/ tickReadsClock
    \/ tickScans
    \/ BatchDone
    \/ checkReturns

SpecTick == Init /\ [][NextTick]_vars

\* A state that no check has touched since it was put into the map.
Fresh(state) ==
    /\ state.Status = StatusUnknown
    /\ state.ConsecutiveFailures = 0
    /\ state.ConsecutiveSuccesses = 0

\* C28: a tick that scans the map dispatches every enabled endpoint that
\* was added and has not been checked since.
C28_FirstTickChecksAdded ==
    [][pc = "scan" /\ pc' = "batch" =>
          \A id \in DOMAIN states :
             states[id].Enabled /\ Fresh(states[id]) => id \in DOMAIN checks']_vars

\* C28, the insert: an add that succeeds leaves a state that is unknown, has
\* both counters at zero and is due at the time of the insert.
C28_AddInsertsFresh ==
    [][\A id \in DOMAIN states' :
          (id \notin DOMAIN states \/ endpoints' # endpoints) /\ id \in DOMAIN endpoints'
          /\ states' # states
          => Fresh(states'[id]) /\ states'[id].NextCheck = now]_vars

(***************************************************************************)
(* The running monitor under fair scheduling (monitor.go): the ticker      *)
(* keeps sending ticks, the loop takes them, a check returns because its   *)
(* request is bound by the timeout of the endpoint, and the requests of    *)
(* the web server come as they like.                                       *)
(***************************************************************************)
NextLive ==
    \/ ClockSecond(MaxTime)
    \/ \E r \in AddRequests, ci \in AddIntervals : handleAddEndpoint(r[1], r[2], <<>>, ci, 1, 1, TRUE)
    \/ \E id \in IDsOf(AddRequests) : DisableEndpoint(id, TRUE)
    \/ \E id \in IDsOf(AddRequests) : EnableEndpoint(id, TRUE)
    \/ checkAllEndpoints
    \/ tickReadsClock
    \/ tickScans
    \/ BatchDone
    \/ checkReturnsAnyhow

SpecLive ==
    /\ Init
    /\ [][NextLive]_vars
    /\ WF_vars(checkAllEndpoints)
    /\ WF_vars(tickReadsClock)
    /\ WF_vars(tickScans)
    /\ WF_vars(BatchDone)
    /\ WF_vars(checkReturnsAnyhow)

Due(id) ==
    /\ id \in DOMAIN states
    /\ states[id].Enabled
    /\ states[id].NextCheck <= now

\* C29: an endpoint that is in the map, enabled and due is dispatched in
\* the end, unless it is disabled first, and a check that was dispatched
\* returns in the end.
C29_DueIsChecked ==
    \A id \in IDsOf(AddRequests) :
        /\ Due(id) ~> (id \in DOMAIN checks \/ ~Due(id))
        /\ id \in DOMAIN checks ~> id \notin DOMAIN checks

\* A tick has dispatched the endpoint again: an earlier check of it has
\* returned and left its record.
C29_Witness ==
    \E id \in DOMAIN checks :
        /\ checks[id].live
        /\ pc = "batch"
        /\ Due(id)
        /\ states[id].LastCheck < now
        /\ Cardinality(RecordsOf(history, id)) >= 1

(***************************************************************************)
(* The alerter with a webhook configured (alerter.go): the checks of one   *)
(* endpoint and the delivery goroutines that sendAlert starts.             *)
(***************************************************************************)
\* The state a delivery goroutine reads through its pointer.
Pointee(d) == IF d.live THEN states[d.ID] ELSE d.state

\* sendWebhookAlert builds its payload, posts it and returns.
sendWebhookAlert(d) ==
    /\ d \in alerter.deliveries
    /\ alerter' = [alerter EXCEPT !.deliveries = @ \ {d}]
    /\ NoOutput /\ UNCHANGED <<locking, cleaner, tickNow, handlers, now, endpoints, history, states, checks, pc>>

InitAlert ==
    /\ now = Epoch
    /\ endpoints = EmptyBucket
    /\ history = EmptyBucket
    /\ states = EmptyBucket
    /\ checks = EmptyBucket
    /\ pc = "new"
    /\ sent = <<>>
    /\ saved = <<>>
    /\ handlers = EmptyBucket
    /\ tickNow = ZeroTime
    /\ alerter = NewAlerter("http://hook")
    /\ cleaner = NewCleaner
    /\ locking = NoLocking

NextAlert ==
    \/ ClockSecond(HistoryTime)
    \/ \E r \in AddRequests, ci \in AddIntervals : handleAddEndpoint(r[1], r[2], <<>>, ci, 1, 1, TRUE)
    \/ ReloadEndpoints
    \/ Scheduler(MainOutcomes, {TRUE})
    \/ \E d \in alerter.deliveries : sendWebhookAlert(d)

SpecAlert == InitAlert /\ [][NextAlert]_vars

\* The "state" object of the payload that sendWebhookAlert posts in this step.
Posts(d) ==
    /\ d \in alerter.deliveries
    /\ alerter'.deliveries = alerter.deliveries \ {d}
    /\ states' = states

\* C30: the status, the counter, the last error, the response time and the
\* last check that a delivery posts are those of the transition that raised
\* the alert.
C30_DeliversSnapshot ==
    [][\A d \in alerter.deliveries : Posts(d) => Shown(Pointee(d)) = d.message]_vars

(***************************************************************************)
(* Two endpoints and the requests that set their flags (monitor.go         *)
(* 167-252), with the checks of the startup batch and of the ticks.        *)
(***************************************************************************)
FlagRequests == {<<(<<"a">>), (<<"x">>)>>, <<(<<"b">>), (<<"y">>)>>}

FlagIDs == IDsOf(FlagRequests)

NextFlags ==
    \/ \E r \in FlagRequests, ci \in AddIntervals : handleAddEndpoint(r[1], r[2], <<>>, ci, 1, 1, TRUE)
    \/ \E id \in FlagIDs, ok \in BOOLEAN : EnableEndpoint(id, ok)
    \/ \E id \in FlagIDs, ok \in BOOLEAN : DisableEndpoint(id, ok)
    \/ \E id \in FlagIDs, ok \in BOOLEAN : SuppressAlerts(id, ok)
    \/ \E id \in FlagIDs, ok \in BOOLEAN : UnsuppressAlerts(id, ok)
    \/ Scheduler(MainOutcomes, {TRUE})

SpecFlags == Init /\ [][NextFlags]_vars

\* The step is the request that sets the flag of the endpoint.
SetsFlag(id, field) ==
    \E value, ok \in BOOLEAN : SetFlag(id, field, value, ok)

\* C39: an enable, disable, suppress or unsuppress leaves every field of the
\* state of its endpoint but its flag as it was, and every other state in
\* the map as it was; a state that was disabled and is enabled again has the
\* status and the counters it had.
C39_FlagsFrame ==
    [][\A id \in FlagIDs, field \in {"Enabled", "AlertsSuppressed"} :
          SetsFlag(id, field) =>
              /\ DOMAIN states' = DOMAIN states
              /\ \A other \in DOMAIN states \ {id} : states'[other] = states[other]
              /\ id \in DOMAIN states =>
                    states'[id] = [states[id] EXCEPT ![field] = states'[id][field]]]_vars

\* One endpoint was disabled and suppressed after its check had made it
\* unhealthy; the other is healthy, enabled and not suppressed.
C39_Witness ==
    \E id, other \in DOMAIN states :
        /\ ~states[id].Enabled
        /\ states[id].AlertsSuppressed
        /\ states[id].Status = StatusUnhealthy
        /\ states[id].ConsecutiveFailures = 1
        /\ states[other].Enabled
        /\ ~states[other].AlertsSuppressed
        /\ states[other].Status = StatusHealthy
        /\ states[other].ConsecutiveSuccesses = 1

\* C40: the record of a check carries the status its handler has left in the
\* state: a failed check that leaves the failure counter below the threshold
\* is recorded with the status before it and with its error, and a
\* successful check that leaves the success counter of an unhealthy endpoint
\* below the threshold is recorded as unhealthy.
C40_RecordHasStatusAfter ==
    [][\A id \in DOMAIN checks :
          (CheckReturns(id) /\ checks[id].live) =>
             /\ Len(saved') = 1
             /\ saved'[1].Status = states'[id].Status
             /\ (FailureReturns(id)
                 /\ states'[id].ConsecutiveFailures < states'[id].Endpoint.FailureThreshold) =>
                    /\ saved'[1].Status = states[id].Status
                    /\ saved'[1].Error # ""
             /\ (SuccessReturns(id)
                 /\ states[id].Status = StatusUnhealthy
                 /\ states'[id].ConsecutiveSuccesses < states'[id].Endpoint.SuccessThreshold) =>
                    /\ saved'[1].Status = StatusUnhealthy
                    /\ saved'[1].Error = ""]_vars

\* A successful check of an unhealthy endpoint has been recorded as
\* unhealthy, and an earlier failed check as unknown with its error.
C40_Witness ==
    /\ Len(saved) = 1
    /\ saved[1].Status = StatusUnhealthy
    /\ saved[1].Error = ""
    /\ \E k \in DOMAIN history :
          history[k].Status = StatusUnknown /\ history[k].Error # ""

(***************************************************************************)
(* Add requests with different names and different URLs (server.go         *)
(* 1004-1094), among the checks of the scheduler.                          *)
(***************************************************************************)
ReplaceRequests ==
    {<<(<<"a">>), (<<"a", "-", "a">>)>>,
     <<(<<"a", "-", "a">>), (<<"a">>)>>,
     <<(<<"b">>), (<<"b">>)>>}

NextReplace ==
    \/ ClockSecond(MaxTime)
    \/ \E r \in ReplaceRequests, ci \in AddIntervals : handleAddEndpoint(r[1], r[2], <<>>, ci, 1, 1, TRUE)
    \/ Scheduler(MainOutcomes, {TRUE})

SpecReplace == Init /\ [][NextReplace]_vars

\* C36: an add that is accepted leaves every definition in the store and
\* every state in the map as it was.
C36_AddNeverReplaces ==
    [][endpoints' # endpoints =>
          \A id \in DOMAIN endpoints :
             /\ id \in DOMAIN endpoints'
             /\ endpoints'[id] = endpoints[id]
             /\ id \in DOMAIN states => id \in DOMAIN states' /\ states'[id] = states[id]]_vars

\* C37: a healthy state has fewer consecutive failures than its failure
\* threshold and an unhealthy state has fewer consecutive successes than
\* its success threshold.
C37_StatusWithinThresholds ==
    \A id \in DOMAIN states :
        /\ states[id].Status = StatusHealthy =>
              states[id].ConsecutiveFailures < states[id].Endpoint.FailureThreshold
        /\ states[id].Status = StatusUnhealthy =>
              states[id].ConsecutiveSuccesses < states[id].Endpoint.SuccessThreshold

(***************************************************************************)
(* The requests on one endpoint as the web server runs them, each on its   *)
(* own goroutine (database.go 208-245, monitor.go 167-252, server.go       *)
(* 1223-1292): a flag operation and a settings update read the definition  *)
(* with GetEndpoint, write the changed copy with SaveEndpoint and then     *)
(* change the state in the map; each of the three holds its lock for       *)
(* itself, so the steps of another handler may run between them.           *)
(***************************************************************************)
ModifyOps == {"enable", "disable", "suppress", "unsuppress", "update"}

\* The copy of the definition that the operation gives to SaveEndpoint.
Modified(op, stored, failureThreshold) ==
    CASE op = "enable" -> [stored EXCEPT !.Enabled = TRUE]
      [] op = "disable" -> [stored EXCEPT !.Enabled = FALSE]
      [] op = "suppress" -> [stored EXCEPT !.AlertsSuppressed = TRUE]
      [] op = "unsuppress" -> [stored EXCEPT !.AlertsSuppressed = FALSE]
      [] op = "update" -> [stored EXCEPT !.FailureThreshold =
                               IF failureThreshold > 0 THEN failureThreshold ELSE @]

\* GetEndpoint, and the assignment to the copy it returns.
modifyRead(h, op, id, failureThreshold) ==
    /\ Begin(h, IF id \in DOMAIN endpoints
                THEN Handler(op, "save", id, Modified(op, endpoints[id], failureThreshold), "")
                ELSE Handler(op, "reply", id, NoState,
                             IF op = "update" THEN "NotFound" ELSE "InternalServerError"))
    /\ NoOutput /\ UNCHANGED <<locking, cleaner, alerter, tickNow, now, endpoints, history, states, checks, pc>>

\* SaveEndpoint of the copy.
modifySave(h, ok) ==
    /\ h \in DOMAIN handlers
    /\ handlers[h].op \in ModifyOps
    /\ handlers[h].at = "save"
    /\ IF ok
       THEN /\ endpoints' = SaveEndpoint(endpoints, handlers[h].endpoint)
            /\ Move(h, [handlers[h] EXCEPT !.at = "memory", !.endpoint = WithDefaults(@)])
       ELSE /\ Reply(h, "InternalServerError")
            /\ UNCHANGED endpoints
    /\ NoOutput /\ UNCHANGED <<locking, cleaner, alerter, tickNow, now, history, states, checks, pc>>

\* The assignment to the state in the map under m.mu and the lock of the state.
modifyMemory(h) ==
    /\ h \in DOMAIN handlers
    /\ handlers[h].op \in ModifyOps
    /\ handlers[h].at = "memory"
    /\ LET op == handlers[h].op
           id == handlers[h].id
       IN  states' =
              IF id \notin DOMAIN states THEN states
              ELSE CASE op = "enable" -> [states EXCEPT ![id].Enabled = TRUE]
                     [] op = "disable" -> [states EXCEPT ![id].Enabled = FALSE]
                     [] op = "suppress" -> [states EXCEPT ![id].AlertsSuppressed = TRUE]
                     [] op = "unsuppress" -> [states EXCEPT ![id].AlertsSuppressed = FALSE]
                     [] op = "update" -> UpdateEndpointSettings(states, id, handlers[h].endpoint)
    /\ Move(h, Handler(handlers[h].op, "reply", handlers[h].id, NoState, "OK"))
    /\ NoOutput /\ UNCHANGED <<locking, cleaner, alerter, tickNow, now, endpoints, history, checks, pc>>

NextConcurrent ==
    \/ \E h \in Handlers, r \in AddRequests : addValidate(h, r[1], r[2], <<>>, <<>>, 1, 1)
    \/ \E h \in Handlers : addSave(h, TRUE)
    \/ \E h \in Handlers : addInsert(h)
    \/ \E h \in Handlers, id \in IDsOf(AddRequests) : removeDelete(h, id, TRUE)
    \/ \E h \in Handlers : removeMemory(h)
    \/ \E h \in Handlers, op \in {"enable", "disable"}, id \in IDsOf(AddRequests) :
          modifyRead(h, op, id, 0)
    \/ \E h \in Handlers : modifySave(h, TRUE)
    \/ \E h \in Handlers : modifyMemory(h)
    \/ \E h \in Handlers : respond(h)

SpecConcurrent == Init /\ [][NextConcurrent]_vars

\* The endpoint of InitScenario and nothing but requests that disable it,
\* suppress its alerts and update its failure threshold.
NextModify ==
    \/ \E h \in Handlers, op \in {"disable", "suppress", "update"} :
          modifyRead(h, op, ScenarioEndpoint.ID, 2)
    \/ \E h \in Handlers : modifySave(h, TRUE)
    \/ \E h \in Handlers : modifyMemory(h)
    \/ \E h \in Handlers : respond(h)

SpecModify == InitScenario /\ [][NextModify]_vars

\* No handler of a request is running.
Quiet == DOMAIN handlers = {}

\* C32: when the requests have been answered, the definition in the store
\* has the flags of the state in the map, so that no enable, disable,
\* suppress or unsuppress that was completed is lost from it.
C32_StoreHasFlagsOfMemory ==
    Quiet =>
        \A id \in DOMAIN states \cap DOMAIN endpoints :
            /\ endpoints[id].Enabled = states[id].Enabled
            /\ endpoints[id].AlertsSuppressed = states[id].AlertsSuppressed

\* C35: when no request is being handled, the map and the store hold the
\* same IDs.
C35_SameIDs == Quiet => DOMAIN states = DOMAIN endpoints

\* C34: a run of CleanupOldData that returns an error and a
\* SaveHealthCheckRecord that returns an error leave the history bucket as it
\* was, and a step that removes a record removes every expired record: no
\* step leaves a part of the deletions of a run.
C34_FailedWriteChangesNothing ==
    [][/\ cleanupRun(FALSE) => history' = history
       /\ \A id \in CleanupIDs, t \in PastTimes(now) :
             appendRecord(id, t, StatusHealthy, FALSE) => history' = history
       /\ (\E k \in DOMAIN history : k \notin DOMAIN history') =>
             DOMAIN history' = DOMAIN history \ Expired(history, now)]_vars

\* The bucket holds two expired records and one that is not expired: a
\* failed run has two deletions to undo.
C34_Witness ==
    /\ Cardinality(Expired(history, now)) = 2
    /\ Cardinality(DOMAIN history) = 3

(***************************************************************************)
(* startCleanupRoutine (database.go 348-362) with its ticker, among the    *)
(* writes of the records of one endpoint over the days.  The ticker's     *)
(* channel holds one tick; a tick that finds it full is dropped.           *)
(***************************************************************************)
\* A faulty loop of startCleanupRoutine that returns when a run fails.
cleanupPeriodicUntilError(ok) ==
    /\ cleaner.at = "waiting"
    /\ cleaner.tick
    /\ history' = IF ok THEN CleanupOldData(history, now) ELSE history
    /\ cleaner' = [at |-> IF ok THEN "waiting" ELSE "returned", tick |-> FALSE, failed |-> ~ok]
    /\ NoOutput /\ UNCHANGED <<locking, alerter, tickNow, handlers, now, endpoints, states, checks, pc>>

\* "Run initial cleanup"
cleanupInitial(ok) ==
    /\ cleaner.at = "initial"
    /\ history' = IF ok THEN CleanupOldData(history, now) ELSE history
    /\ cleaner' = [cleaner EXCEPT !.at = "waiting", !.failed = ~ok]
    /\ NoOutput /\ UNCHANGED <<locking, alerter, tickNow, handlers, now, endpoints, states, checks, pc>>

\* The ticker sends a tick after its period.
tickerFires ==
    /\ ~cleaner.tick
    /\ cleaner' = [cleaner EXCEPT !.tick = TRUE]
    /\ NoOutput /\ UNCHANGED <<locking, alerter, tickNow, handlers, now, endpoints, history, states, checks, pc>>

\* One round of "for range ticker.C": the tick is received and CleanupOldData runs.
cleanupPeriodic(ok) ==
    /\ cleaner.at = "waiting"
    /\ cleaner.tick
    /\ history' = IF ok THEN CleanupOldData(history, now) ELSE history
    /\ cleaner' = [at |-> "waiting", tick |-> FALSE, failed |-> ~ok]
    /\ NoOutput /\ UNCHANGED <<locking, alerter, tickNow, handlers, now, endpoints, states, checks, pc>>

cleanupRuns == \E ok \in BOOLEAN : cleanupInitial(ok) \/ cleanupPeriodic(ok)

NextPruner ==
    \/ ClockDay(MaxDays)
    \/ \E t \in PastTimes(now) : appendRecord(ScenarioEndpoint.ID, t, StatusHealthy, TRUE)
    \/ tickerFires
    \/ cleanupRuns

SpecPruner ==
    /\ Init
    /\ [][NextPruner]_vars
    /\ WF_vars(tickerFires)
    /\ WF_vars(cleanupRuns)

\* C33: the routine runs CleanupOldData once before it waits for its ticker,
\* every tick is followed by a run, the ticks and the runs never end, and a
\* run that fails leaves the routine waiting for the next tick.
C33_PrunerKeepsRunning ==
    /\ <>(cleaner.at = "waiting")
    /\ [][(cleaner.at = "initial" /\ cleaner'.at # "initial") =>
             /\ cleaner'.at = "waiting"
             /\ cleaner'.failed \/ Expired(history', now) = {}]_vars
    /\ cleaner.tick ~> ~cleaner.tick
    /\ []<>cleaner.tick
    /\ [](cleaner.failed => cleaner.at = "waiting")
    /\ (cleaner.failed /\ cleaner.tick) ~> ~cleaner.tick

\* A run has failed, the routine waits, and the next tick has come.
C33_Witness ==
    /\ cleaner.failed
    /\ cleaner.at = "waiting"
    /\ cleaner.tick
    /\ Expired(history, now) # {}

(***************************************************************************)
(* The locks (monitor.go, database.go, server.go): m is Monitor.mu, s is   *)
(* the mu of the state of one endpoint and d is Database.mu, all three     *)
(* sync.RWMutex.  Each goroutine runs the lock operations and the accesses *)
(* to the fields of the state that its code makes, in the order of the     *)
(* code, again and again.                                                  *)
(***************************************************************************)
Op(op, lock, mode) == [op |-> op, lock |-> lock, mode |-> mode]

\* A faulty flag operation that locks the state before the map.
mutateProgramStateFirst ==
    <<Op("lock", "d", "r"), Op("unlock", "d", "r"),
      Op("lock", "d", "w"), Op("unlock", "d", "w"),
      Op("lock", "s", "w"), Op("lock", "m", "w"), Op("write", "s", ""),
      Op("unlock", "m", "w"), Op("unlock", "s", "w")>>

\* EnableEndpoint and the other flag operations, and a settings update:
\* GetEndpoint, SaveEndpoint, then the state under m.mu and its own lock.
mutateProgram ==
    <<Op("lock", "d", "r"), Op("unlock", "d", "r"),
      Op("lock", "d", "w"), Op("unlock", "d", "w"),
      Op("lock", "m", "w"), Op("lock", "s", "w"), Op("write", "s", ""),
      Op("unlock", "s", "w"), Op("unlock", "m", "w")>>

\* scan: checkDueEndpoints reads Enabled and NextCheck of each state of the
\*   map (checkAllEndpoints reads Enabled).
\* check: checkEndpoint reads the timeout, the method, the URL and the
\*   expected status of state.Endpoint; the outcome handler locks the state,
\*   assigns its fields and calls SaveHealthCheckRecord before its deferred
\*   Unlock.
\* status: GetStatus, then handleAPIStatus reading the state it was given.
\* reload: loadEndpointsFromDB calls GetAllEndpoints under m.mu.
\* pruner: CleanupOldData.
\* delivery: sendWebhookAlert and sendSlackAlert building their payload.
Program(g) ==
    CASE g = "scan" ->
           <<Op("lock", "m", "r"), Op("lock", "s", "r"), Op("read", "s", ""),
             Op("unlock", "s", "r"), Op("unlock", "m", "r")>>
      [] g = "check" ->
           <<Op("read", "s", ""),
             Op("lock", "s", "w"), Op("write", "s", ""),
             Op("lock", "d", "w"), Op("unlock", "d", "w"),
             Op("unlock", "s", "w")>>
      [] g = "mutate" -> mutateProgram
      [] g = "status" ->
           <<Op("lock", "m", "r"), Op("lock", "s", "r"), Op("unlock", "s", "r"),
             Op("unlock", "m", "r"),
             Op("lock", "s", "r"), Op("read", "s", ""), Op("unlock", "s", "r")>>
      [] g = "reload" ->
           <<Op("lock", "m", "w"), Op("lock", "d", "r"), Op("unlock", "d", "r"),
             Op("unlock", "m", "w")>>
      [] g = "pruner" -> <<Op("lock", "d", "w"), Op("unlock", "d", "w")>>
      [] g = "delivery" -> <<Op("read", "s", "")>>

\* The operation the goroutine is at.
Cur(g) == Program(g)[locking[g].pc]

\* The goroutine has called Lock or RLock and has not returned from it.
Wants(g, lock, mode) == Cur(g) = Op("lock", lock, mode)

\* sync.RWMutex: Lock waits for every holder; RLock waits for the writer
\* that holds the lock and for a writer that waits for it.
CanLock(g, lock, mode) ==
    IF mode = "w"
    THEN \A h \in Lockers : <<lock, "r">> \notin locking[h].holds
                            /\ <<lock, "w">> \notin locking[h].holds
    ELSE \A h \in Lockers : /\ <<lock, "w">> \notin locking[h].holds
                            /\ h # g => ~Wants(h, lock, "w")

\* The position after the operation the goroutine is at.
After(g) == IF locking[g].pc = Len(Program(g)) THEN 1 ELSE locking[g].pc + 1

\* The goroutine runs the operation it is at.  Unlock
\* of a writer lets in every reader that waits for the lock before another
\* writer can have it.
step(g) ==
    /\ LET op == Cur(g)
       IN  CASE op.op = "lock" ->
                  /\ CanLock(g, op.lock, op.mode)
                  /\ locking' = [locking EXCEPT ![g] =
                         [pc |-> After(g), holds |-> @.holds \cup {<<op.lock, op.mode>>}]]
             [] op.op = "unlock" ->
                  locking' = [h \in Lockers |->
                      IF h = g
                      THEN [pc |-> After(g), holds |-> locking[g].holds \ {<<op.lock, op.mode>>}]
                      ELSE IF op.mode = "w" /\ Wants(h, op.lock, "r")
                           THEN [pc |-> After(h), holds |-> locking[h].holds \cup {<<op.lock, "r">>}]
                           ELSE locking[h]]
             [] OTHER -> locking' = [locking EXCEPT ![g].pc = After(g)]
    /\ NoOutput
    /\ UNCHANGED <<cleaner, alerter, tickNow, handlers, now, endpoints, history, states, checks, pc>>

NextLocks == \E g \in Lockers : step(g)

SpecLocks == Init /\ [][NextLocks]_vars /\ \A g \in Lockers : SF_vars(step(g))

\* The goroutine is at a read or at an assignment of a field of the state.
Accesses(g) == Cur(g).op \in {"read", "write"}

\* C31: while a goroutine assigns a field of the state, which it does under
\* the exclusive lock of the state, no other goroutine reads or assigns a
\* field of that state.
C31_NoAccessDuringWrite ==
    \A g \in Lockers : \A h \in Lockers \ {g} :
        Cur(g).op = "write" /\ <<Cur(g).lock, "w">> \in locking[g].holds => ~Accesses(h)

\* The goroutine waits for a lock it cannot have now.
Blocked(g) == Cur(g).op = "lock" /\ ~CanLock(g, Cur(g).lock, Cur(g).mode)

\* The goroutines that keep the lock from a goroutine that waits for it.
Blockers(g) ==
    {h \in Lockers \ {g} :
        \/ <<Cur(g).lock, "w">> \in locking[h].holds
        \/ Cur(g).mode = "w" /\ <<Cur(g).lock, "r">> \in locking[h].holds
        \/ Cur(g).mode = "r" /\ Wants(h, Cur(g).lock, "w")}

\* Goroutines that all wait, each for goroutines among them only.
Deadlocked(S) == S # {} /\ \A g \in S : Blocked(g) /\ Blockers(g) \subseteq S

\* C38: no goroutines wait for one another alone, and every goroutine comes
\* to the start of its code again and again, holding no lock: it returns
\* from each Lock and RLock it calls.
C38_NoDeadlock ==
    /\ [](\A S \in SUBSET Lockers : ~Deadlocked(S))
    /\ \A g \in Lockers : []<>(locking[g].pc = 1 /\ locking[g].holds = {})

\* The outcome handler holds the lock of the state and waits for the store,
\* a flag operation holds the map and waits for the state, and the scan
\* waits for the map.
C38_Witness ==
    /\ <<"s", "w">> \in locking["check"].holds /\ Blocked("check")
    /\ <<"m", "w">> \in locking["mutate"].holds /\ Blocked("mutate")
    /\ Blocked("scan")
    /\ <<"d", "w">> \in locking["pruner"].holds
====
